---- MODULE Spec2Model ----
(***************************************************************************)
(* Model of magento.clients.Client: the authenticated request runtime.     *)
(*                                                                         *)
(* The client is synchronous and single threaded, so its execution is a    *)
(* call stack.  Every frame is one activation of authenticate(),           *)
(* validate() or request(); the headers/token properties are evaluated     *)
(* inside the request frame that reads them.  The server is the            *)
(* environment: the status of every response and the outcome of every      *)
(* login are chosen nondeterministically.                                  *)
(*                                                                         *)
(* The decorator jsondecode_error_retry wrapping request() acts only when  *)
(* the wrapped call raises a JSON decoding error; the body of request()    *)
(* modelled here raises none, so the decorator is transparent.             *)
(***************************************************************************)
EXTENDS Integers, Sequences, FiniteSets, TLC

VARIABLES
    password,                \* USER_CREDENTIALS['password']
    api_key,                 \* Client.api_key
    authentication_method,   \* Client.authentication_method
    ACCESS_TOKEN,            \* Client.ACCESS_TOKEN (Unset until first assigned)
    authentication_retries,  \* Client.authentication_retries
    phase,                   \* "constructing", "ready" or "failed" (__init__ raised)
    stack,                   \* the call stack, innermost frame last
    ret,                     \* value being returned to the frame on top
    exc,                     \* exception propagating to the frame on top
    outcome,                 \* how the last top-level call ended
    op,                      \* history of the top-level call in progress
    lastLogin,               \* history: token of the most recent accepted login
    failedRun,               \* history: failed authenticate() calls, see AuthFailed
    tokenRejected,           \* history: the stored token comes from a login whose validation failed
    product_attribute_options_attribute,  \* Client._product_attribute_options_attribute
    product_attribute_options,            \* Client._product_attribute_options (stored handler)
    media_entries_product,                \* Client._media_entries_product
    media_entry_manager,                  \* Client._media_entry_manager (stored handler)
    call,                    \* the last manager() call or prerequisite assignment and its result
    discarded,               \* history: what the handlers last discarded by a setter were built with
    local,                   \* the constructor's `local` argument (http instead of https)
    tx,                      \* the session's exchange for one request() send
    scope,                   \* Client.scope
    store_dict,              \* Store.__dict__: the entries memoized by cached_property
    net,                     \* history: fetches per property since the last refresh(), refresh count
    reader,                  \* the thread using the Store: its call stack and the value in hand
    refresher,               \* the thread inside Store.refresh(): the next key to pop
    storeCall,               \* the last Store call that returned, and its result
    domain,                  \* Client.domain, as given to the constructor
    BASE_URL,                \* Client.BASE_URL
    urlCall,                 \* the last url_for() call and the url it returned
    instances,               \* the Client, Session and Store objects of a process with several clients
    username,                \* Client.USER_CREDENTIALS['username']
    user_agent,              \* Client.user_agent
    settings                 \* the last to_dict() mapping and the client from_dict() built from it

creds == <<password, api_key, authentication_method>>
vars == <<password, api_key, authentication_method, ACCESS_TOKEN,
          authentication_retries, phase, stack, ret, exc, outcome, op,
          lastLogin, failedRun, tokenRejected,
          product_attribute_options_attribute, product_attribute_options,
          media_entries_product, media_entry_manager, call, discarded,
          local, tx, scope, store_dict, net, reader, refresher, storeCall,
          domain, BASE_URL, urlCall, instances, username, user_agent, settings>>

\* The state of the endpoint router and of the transport; the authentication
\* and request operations leave both alone.
routing == <<product_attribute_options_attribute, product_attribute_options,
             media_entries_product, media_entry_manager, call, discarded>>
transport == <<local, tx>>
\* The state of the Store (client.store)
store == <<scope, store_dict, net, reader, refresher, storeCall>>
\* What url_for() reads and returns
urls == <<domain, BASE_URL, urlCall>>
\* what only the serialization of the client reads or writes
serial == <<username, user_agent, settings>>

----------------------------------------------------------------------------
(* Bounds of the model *)

\* deepest call stack explored; a call beyond it raises RecursionError
MaxDepth == 11
\* the per-call history counters saturate here
CountCap == 3

(* Program constants *)

\* clients.py:354  if self.authentication_retries == 3
MaxAuthRetries == 3

----------------------------------------------------------------------------
(* Values *)

None == "None"
Unset == "<unset>"
Empty == ""
PASSWORD == "PASSWORD"
TOKEN == "TOKEN"

\* what response.json() of an accepted login can be: a token, or an empty string
Tokens == {"t1", "t2", Empty}
Passwords == {None, "pw"}
ApiKeys == {None, Empty, "key"}
\* statuses the server answers an authorized request with
Statuses == {200, 401, 500}
\* arguments (method, url, payload) of top-level request() calls
RequestArgs ==
    { <<"get", "orders/1", None>>, <<"POST", "orders", "{a:1}">>,
      <<"POST", "orders", "{}">>, <<"put", "orders/1", None>>,
      <<"patch", "orders/1", "{a:1}">> }
ValidateUrl == "store/websites"

\* a returned value: a response is its status code, True is 1
NoRet == [fn |-> "none", val |-> 0]
NoExc == "none"
NoOutcome == [kind |-> "none", fn |-> "none", val |-> 0, err |-> "none"]
True == 1

AuthErrLogin == "AuthenticationError:login"
AuthErrValidate == "AuthenticationError:validate"
AuthErrTokenValidation == "AuthenticationError:token_validation"
ErrExhausted == "ValueError:exhausted"
ErrCredentials == "ValueError:credentials"
ErrPayload == "ValueError:payload"
ErrMethod == "ValueError:method"
ErrAttribute == "AttributeError:ACCESS_TOKEN"
ErrRecursion == "RecursionError"

IsAuthenticationError(e) == e \in {AuthErrLogin, AuthErrValidate, AuthErrTokenValidation}
IsValueError(e) == e \in {ErrExhausted, ErrCredentials, ErrPayload, ErrMethod}

\* str.upper() on the method names used here
Upper(m) ==
    CASE m = "get" -> "GET"
      [] m = "post" -> "POST"
      [] m = "put" -> "PUT"
      [] m = "delete" -> "DELETE"
      [] m = "patch" -> "PATCH"
      [] OTHER -> m

\* Python truthiness of a payload / of a token
Truthy(v) == v \notin {None, Unset, Empty, "{}"}

Inc(n) == IF n < CountCap THEN n + 1 ELSE n

----------------------------------------------------------------------------
(* Frames *)

Frame(fn, pc) ==
    [fn |-> fn, pc |-> pc, method |-> "-", url |-> "-", payload |-> None,
     gen |-> 0, root |-> FALSE, status |-> 0, tainted |-> FALSE]

AuthenticateFrame == Frame("authenticate", "start")
ValidateFrame == Frame("validate", "start")
RequestFrame(m, u, p, g, r) ==
    [Frame("request", "start") EXCEPT !.method = m, !.url = u, !.payload = p,
                                      !.gen = g, !.root = r]

Depth == Len(stack)
Top == stack[Depth]
Pop == SubSeq(stack, 1, Depth - 1)
SetTop(f) == [stack EXCEPT ![Depth] = f]
At(fn, pc) == Depth > 0 /\ exc = NoExc /\ Top.fn = fn /\ Top.pc = pc

\* history of one top-level call: the re-authentications started at line 430,
\* the network calls and the logins among them, the error-severity log entries
\* of line 435, and, for request(), what the original send and its replays
\* received; the retry counter the call started with, whether every authorized
\* call so far was answered 401 and whether a login was rejected
NewOp(kind) ==
    [kind |-> kind, reauthCalls |-> 0, netCalls |-> 0, logins |-> 0,
     first401 |-> FALSE, reauthOk |-> FALSE, replayStatus |-> 0,
     rootSends |-> 0, valBad |-> FALSE, reauthValBad |-> FALSE, errorLogs |-> 0,
     startRetries |-> authentication_retries, only401 |-> TRUE, rejected |-> FALSE]

\* the top frame returns v to its caller (or ends the top-level call)
ReturnTo(rest, fn, v) ==
    /\ exc' = NoExc
    /\ IF rest = <<>>
       THEN /\ stack' = <<>>
            /\ ret' = NoRet
            /\ outcome' = [kind |-> "returned", fn |-> fn, val |-> v, err |-> NoExc]
            /\ phase' = "ready"
       ELSE /\ stack' = rest
            /\ ret' = [fn |-> fn, val |-> v]
            /\ UNCHANGED <<outcome, phase>>

\* the top frame is left by exception e
RaiseTo(rest, e) ==
    /\ ret' = NoRet
    /\ IF rest = <<>>
       THEN /\ stack' = <<>>
            /\ exc' = NoExc
            /\ outcome' = [kind |-> "raised", fn |-> stack[1].fn, val |-> 0, err |-> e]
            /\ phase' = IF phase = "constructing" THEN "failed" ELSE phase
       ELSE /\ stack' = rest
            /\ exc' = e
            /\ UNCHANGED <<outcome, phase>>

\* the top frame, updated to caller, calls callee
CanCall == Depth < MaxDepth
Call(caller, callee) ==
    /\ stack' = Append(SetTop(caller), callee)
    /\ ret' = NoRet
    /\ exc' = NoExc
    /\ UNCHANGED <<outcome, phase>>

----------------------------------------------------------------------------
(* Client.__init__ *)

InitClient ==
    /\ password \in Passwords
    /\ api_key \in ApiKeys
    /\ authentication_method \in {PASSWORD, TOKEN}
    /\ ACCESS_TOKEN = Unset
    /\ authentication_retries = 0
    /\ ret = NoRet
    /\ exc = NoExc
    /\ outcome = NoOutcome
    /\ lastLogin = None
    /\ failedRun = 0
    /\ tokenRejected = FALSE
    /\ \E login \in BOOLEAN :
          IF login
          THEN /\ phase = "constructing"
               /\ stack = <<AuthenticateFrame>>
               /\ op = NewOp("authenticate")
          ELSE /\ phase = "ready"
               /\ stack = <<>>
               /\ op = NewOp("none")

\* No manager() call yet; no handler attribute exists on a new client
\* (hasattr is False for all four underscore attributes).
NoCall == [kind |-> "none", endpoint |-> <<>>, family |-> "none",
           mgrEndpoint |-> <<>>, mgrArg |-> None, raised |-> NoExc,
           constructed |-> FALSE]
NoTx == [state |-> "idle", method |-> "none", responses |-> <<>>]

InitRouting ==
    /\ product_attribute_options_attribute = Unset
    /\ product_attribute_options = Unset
    /\ media_entries_product = Unset
    /\ media_entry_manager = Unset
    /\ call = NoCall
    /\ discarded = [options |-> Unset, media |-> Unset]

\* The properties of Store decorated with @cached_property
CachedPropertiesNoAttributes ==
    {"configs", "views", "websites", "store_view_product_attributes",
     "website_product_attributes", "global_product_attributes",
     "website_attribute_codes"}
CachedProperties ==
    {"configs", "views", "websites", "all_product_attributes",
     "store_view_product_attributes", "website_product_attributes",
     "global_product_attributes", "website_attribute_codes"}
\* those computed by a search through a manager
FetchedProperties == {"configs", "views", "websites", "all_product_attributes"}

\* An entry of Store.__dict__: has is FALSE while the key is absent; gen is
\* history, the number of refresh() calls begun when the entry's list was fetched.
NoEntry == [has |-> FALSE, val |-> <<>>, gen |-> 0]
NoStoreCall == [op |-> "none", result |-> <<>>, raised |-> NoExc, gen |-> 0]

\* Store.__init__ memoizes nothing; no thread is inside the Store.
InitStore ==
    /\ store_dict = [k \in CachedProperties \cup FetchedProperties |-> NoEntry]
    /\ net = [fetches |-> [k \in FetchedProperties |-> 0], refreshes |-> 0]
    /\ reader = [stack |-> <<>>, acc |-> NoEntry, data |-> <<>>]
    /\ refresher = [pc |-> 0, shared |-> FALSE]
    /\ storeCall = NoStoreCall

\* The `domain` arguments clients are constructed with
RawDomains ==
    {<<"d", ".", "c", "o">>,
     <<"h", "t", "t", "p", "s", ":", "/", "/", "w", "w", "w", ".", "d", ".", "c", "o", "/", "V", "1", "/">>,
     <<"u", "@", "d", ".", "c", "o", ":", "4", "4", "3", "/", "m">>,
     <<"d", ".", "c", "o", "/", "m", "/">>}

StartsWith(s, prefix) == Len(s) >= Len(prefix) /\ SubSeq(s, 1, Len(prefix)) = prefix
DropPrefix(s, prefix) ==
    IF StartsWith(s, prefix) THEN SubSeq(s, Len(prefix) + 1, Len(s)) ELSE s
First(indices) == CHOOSE i \in indices : \A j \in indices : i <= j

\* str.rstrip('/')
RECURSIVE RStrip(_)
RStrip(s) ==
    IF s # <<>> /\ s[Len(s)] = "/" THEN RStrip(SubSeq(s, 1, Len(s) - 1)) ELSE s

\* parse_domain(): the match of
\*   ^(?:https?://)?(?:[^@\n]+@)?(?:www\.)?([^:\n?#]+)
\* for a domain whose host is not empty (each optional group is then taken
\* when it is there), group 1 with its trailing slashes stripped.
ParseDomain(raw) ==
    LET noScheme == IF StartsWith(raw, <<"h", "t", "t", "p", "s", ":", "/", "/">>)
                    THEN DropPrefix(raw, <<"h", "t", "t", "p", "s", ":", "/", "/">>)
                    ELSE DropPrefix(raw, <<"h", "t", "t", "p", ":", "/", "/">>)
        ats == {i \in DOMAIN noScheme : noScheme[i] = "@"}
        noUser == IF ats # {} /\ First(ats) > 1
                  THEN SubSeq(noScheme, First(ats) + 1, Len(noScheme))
                  ELSE noScheme
        noWww == DropPrefix(noUser, <<"w", "w", "w", ".">>)
        stops == {i \in DOMAIN noWww : noWww[i] \in {":", "?", "#"}}
        group == IF stops = {} THEN noWww ELSE SubSeq(noWww, 1, First(stops) - 1)
    IN  RStrip(group)

\* ("http" if local else "https") + f"://{parse_domain(domain)}/rest/V1/"
BaseUrl(isLocal, raw) ==
    (IF isLocal THEN <<"h", "t", "t", "p">> ELSE <<"h", "t", "t", "p", "s">>)
        \o <<":", "/", "/">> \o ParseDomain(raw)
        \o <<"/", "r", "e", "s", "t", "/", "V", "1", "/">>

NoUrlCall == [endpoint |-> <<>>, scope |-> None, url |-> <<>>, done |-> FALSE]

\* BASE_URL is computed once, by the constructor
InitUrls ==
    /\ BASE_URL = BaseUrl(local, domain)
    /\ urlCall = NoUrlCall

\* get_agent(): the first agent of the scraped list, or the default one
Agents == {"default-agent", "scraped-agent"}

\* line 96
UserAgentOf(agent, given) == IF Truthy(given) THEN given ELSE agent

\* done: "", "to_dict", "from_dict" (a client was returned) or "raised"
NoSettings == [done |-> Empty, data |-> <<>>, copy |-> <<>>, raised |-> NoExc]

\* The client of every operation but the serialization: its user name and its
\* user agent are fixed, and nothing was serialized
InitSerial ==
    /\ username = "user"
    /\ user_agent = UserAgentOf("default-agent", None)
    /\ settings = NoSettings

\* One client alone in its process
NoInstances == [client |-> <<>>, sessions |-> <<>>, stores |-> <<>>, actor |-> 0]

\* The client of the authentication and request operations is an https client
\* of the default scope; the scheme only matters to the transport
\* (SpecTransport), the scope to the Store (SpecStore).
Init ==
    /\ InitClient
    /\ InitRouting
    /\ InitStore
    /\ local = FALSE
    /\ tx = NoTx
    /\ scope = Empty
    /\ domain = <<"d", ".", "c", "o">>
    /\ InitUrls
    /\ InitSerial
    /\ instances = NoInstances

----------------------------------------------------------------------------
(* Client.authenticate *)

\* mutant of Exhausted: the limit is compared off by one
ExhaustedOffByOne == authentication_retries = MaxAuthRetries + 1
\* line 354
Exhausted == authentication_retries = MaxAuthRetries
\* mutant of NextRetries: the increment is lost
NextRetriesNoIncrement == authentication_retries
\* line 356
NextRetries == authentication_retries + 1
\* line 361
UsesApiKey == authentication_method = TOKEN
\* mutant of MissingCredentials: the check is made for the API-key method only
MissingCredentialsApiKeyOnly == password = None /\ api_key = None /\ UsesApiKey
\* line 358
MissingCredentials == password = None /\ api_key = None
\* mutant of ApiKeyToken: the wrong credential is stored
ApiKeyTokenFromPassword == password
\* line 362
ApiKeyToken == api_key
\* line 388
RetriesAfterSuccess == 0

\* history: an authenticate() call ended by an exception.  failedRun counts the
\* failed calls that began after the last successful authenticate() returned.
AuthFailed(f) ==
    failedRun' = IF f.tainted \/ failedRun = MaxAuthRetries
                 THEN failedRun ELSE failedRun + 1

Taint(s) ==
    [i \in 1..Len(s) |->
        IF s[i].fn = "authenticate" THEN [s[i] EXCEPT !.tainted = TRUE] ELSE s[i]]

\* lines 354-355
AuthExhaustedResets ==
    /\ At("authenticate", "start")
    /\ Exhausted
    /\ RaiseTo(Pop, ErrExhausted)
    /\ AuthFailed(Top)
    /\ authentication_retries' = 0
    /\ UNCHANGED <<creds, urls, instances, serial, routing, transport, store, ACCESS_TOKEN, op, lastLogin,
                   tokenRejected>>
AuthExhausted ==
    /\ At("authenticate", "start")
    /\ Exhausted
    /\ RaiseTo(Pop, ErrExhausted)
    /\ AuthFailed(Top)
    /\ UNCHANGED <<creds, urls, instances, serial, routing, transport, store, ACCESS_TOKEN, authentication_retries, op, lastLogin,
                   tokenRejected>>

\* lines 356-359
AuthNoCredentials ==
    /\ At("authenticate", "start")
    /\ ~Exhausted
    /\ authentication_retries' = NextRetries
    /\ MissingCredentials
    /\ RaiseTo(Pop, ErrCredentials)
    /\ AuthFailed(Top)
    /\ UNCHANGED <<creds, urls, instances, serial, routing, transport, store, ACCESS_TOKEN, op, lastLogin, tokenRejected>>

\* lines 356-362
AuthApiKey ==
    /\ At("authenticate", "start")
    /\ ~Exhausted
    /\ authentication_retries' = NextRetries
    /\ ~MissingCredentials
    /\ UsesApiKey
    /\ ACCESS_TOKEN' = ApiKeyToken
    /\ tokenRejected' = FALSE
    /\ stack' = SetTop([Top EXCEPT !.pc = "validate"])
    /\ UNCHANGED <<creds, urls, instances, serial, routing, transport, store, phase, ret, exc, outcome, op, lastLogin, failedRun>>

\* lines 356-377: the login request is accepted and returns tok
AuthLoginAccepted ==
    /\ At("authenticate", "start")
    /\ ~Exhausted
    /\ authentication_retries' = NextRetries
    /\ ~MissingCredentials
    /\ ~UsesApiKey
    /\ \E tok \in Tokens :
          /\ ACCESS_TOKEN' = tok
          /\ lastLogin' = tok
          /\ stack' = SetTop([Top EXCEPT !.pc = "validate"])
    /\ tokenRejected' = FALSE
    /\ op' = [op EXCEPT !.netCalls = Inc(@), !.logins = Inc(@)]
    /\ UNCHANGED <<creds, urls, instances, serial, routing, transport, store, phase, ret, exc, outcome, failedRun>>

\* lines 356-379: the login request is rejected (response.ok is false)
AuthLoginRejected ==
    /\ At("authenticate", "start")
    /\ ~Exhausted
    /\ authentication_retries' = NextRetries
    /\ ~MissingCredentials
    /\ ~UsesApiKey
    /\ op' = [op EXCEPT !.netCalls = Inc(@), !.logins = Inc(@), !.rejected = TRUE]
    /\ RaiseTo(Pop, AuthErrLogin)
    /\ AuthFailed(Top)
    /\ UNCHANGED <<creds, urls, instances, serial, routing, transport, store, ACCESS_TOKEN, lastLogin, tokenRejected>>

\* lines 381-383: self.validate()
AuthCallValidate ==
    /\ At("authenticate", "validate")
    /\ CanCall
    /\ Call([Top EXCEPT !.pc = "validating"], ValidateFrame)
    /\ UNCHANGED <<creds, urls, instances, serial, routing, transport, store, ACCESS_TOKEN, authentication_retries, op, lastLogin,
                   failedRun, tokenRejected>>

\* lines 387-389: validate() returned
AuthSucceed ==
    /\ At("authenticate", "validating")
    /\ ret.fn = "validate"
    /\ authentication_retries' = RetriesAfterSuccess
    /\ ReturnTo(Taint(Pop), "authenticate", True)
    /\ failedRun' = 0
    /\ tokenRejected' = FALSE
    /\ UNCHANGED <<creds, urls, instances, serial, routing, transport, store, ACCESS_TOKEN, op, lastLogin>>

\* lines 384-385: except AuthenticationError: raise AuthenticationError(...)
ValidationHandlerCatchesAll(e) == AuthErrTokenValidation
ValidationHandler(e) ==
    IF IsAuthenticationError(e) THEN AuthErrTokenValidation ELSE e

AuthValidationFailed ==
    /\ Depth > 0
    /\ exc # NoExc
    /\ Top.fn = "authenticate"
    /\ Top.pc = "validating"
    /\ RaiseTo(Pop, ValidationHandler(exc))
    /\ AuthFailed(Top)
    /\ tokenRejected' = IF ~UsesApiKey /\ IsAuthenticationError(exc) /\ ~Top.tainted
                        THEN TRUE ELSE tokenRejected
    /\ UNCHANGED <<creds, urls, instances, serial, routing, transport, store, ACCESS_TOKEN, authentication_retries, op, lastLogin>>

----------------------------------------------------------------------------
(* Client.validate *)

ValidStatus(s) == s = 200

\* line 396: self.get(self.url_for('store/websites'))
ValidateCall ==
    /\ At("validate", "start")
    /\ CanCall
    /\ Call([Top EXCEPT !.pc = "got"], RequestFrame("GET", ValidateUrl, None, 0, FALSE))
    /\ UNCHANGED <<creds, urls, instances, serial, routing, transport, store, ACCESS_TOKEN, authentication_retries, op, lastLogin,
                   failedRun, tokenRejected>>

\* lines 397-400
ValidateOk ==
    /\ At("validate", "got")
    /\ ret.fn = "request"
    /\ ValidStatus(ret.val)
    /\ ReturnTo(Pop, "validate", True)
    /\ UNCHANGED <<creds, urls, instances, serial, routing, transport, store, ACCESS_TOKEN, authentication_retries, op, lastLogin,
                   failedRun, tokenRejected>>

\* lines 401-404
ValidateFail ==
    /\ At("validate", "got")
    /\ ret.fn = "request"
    /\ ~ValidStatus(ret.val)
    /\ RaiseTo(Pop, AuthErrValidate)
    /\ UNCHANGED <<creds, urls, instances, serial, routing, transport, store, ACCESS_TOKEN, authentication_retries, op, lastLogin,
                   failedRun, tokenRejected>>

----------------------------------------------------------------------------
(* Client.request, with the headers and token properties it evaluates *)

\* mutant of Sendable: one more method is let through
SendableWithPatch == {"GET", "DELETE", "PATCH"}
\* line 418
Sendable == {"GET", "DELETE"}
\* line 420
NeedsPayload == {"POST", "PUT"}
\* mutant of Unauthorized: every failed response re-authenticates
UnauthorizedAnyFailure(s) == s # 200
\* line 428
Unauthorized(s) == s = 401
\* line 474: if not self.ACCESS_TOKEN
TokenMissingNoneIsToken == ACCESS_TOKEN = Empty
TokenMissing == ~Truthy(ACCESS_TOKEN)

\* lines 417, 425-426
RequestInvalidMethod ==
    /\ At("request", "start")
    /\ Upper(Top.method) \notin Sendable \cup NeedsPayload
    /\ RaiseTo(Pop, ErrMethod)
    /\ UNCHANGED <<creds, urls, instances, serial, routing, transport, store, ACCESS_TOKEN, authentication_retries, op, lastLogin,
                   failedRun, tokenRejected>>

\* lines 417, 420-424
RequestEmptyPayload ==
    /\ At("request", "start")
    /\ Upper(Top.method) \in NeedsPayload
    /\ ~Truthy(Top.payload)
    /\ RaiseTo(Pop, ErrPayload)
    /\ UNCHANGED <<creds, urls, instances, serial, routing, transport, store, ACCESS_TOKEN, authentication_retries, op, lastLogin,
                   failedRun, tokenRejected>>

\* lines 417-422: the method and payload are accepted; the arguments of
\* session.request, self.headers among them, are evaluated next
RequestPrepare ==
    /\ At("request", "start")
    /\ \/ Upper(Top.method) \in Sendable
       \/ Upper(Top.method) \in NeedsPayload /\ Truthy(Top.payload)
    /\ stack' = SetTop([Top EXCEPT !.pc = "headers", !.method = Upper(@)])
    /\ UNCHANGED <<creds, urls, instances, serial, routing, transport, store, ACCESS_TOKEN, authentication_retries, phase, ret, exc,
                   outcome, op, lastLogin, failedRun, tokenRejected>>

\* line 474 when ACCESS_TOKEN was never assigned: the attribute lookup fails
RequestTokenUnset ==
    /\ At("request", "headers")
    /\ ACCESS_TOKEN = Unset
    /\ RaiseTo(Pop, ErrAttribute)
    /\ UNCHANGED <<creds, urls, instances, serial, routing, transport, store, ACCESS_TOKEN, authentication_retries, op, lastLogin,
                   failedRun, tokenRejected>>

\* lines 474-475: the token is falsy, so token calls authenticate()
RequestTokenAuthenticate ==
    /\ At("request", "headers")
    /\ ACCESS_TOKEN # Unset
    /\ TokenMissing
    /\ CanCall
    /\ Call([Top EXCEPT !.pc = "token"], AuthenticateFrame)
    /\ UNCHANGED <<creds, urls, instances, serial, routing, transport, store, ACCESS_TOKEN, authentication_retries, op, lastLogin,
                   failedRun, tokenRejected>>

\* lines 474, 476, 466: the stored token goes into the Authorization header
RequestTokenReady ==
    /\ At("request", "headers")
    /\ ACCESS_TOKEN # Unset
    /\ ~TokenMissing
    /\ stack' = SetTop([Top EXCEPT !.pc = "send"])
    /\ UNCHANGED <<creds, urls, instances, serial, routing, transport, store, ACCESS_TOKEN, authentication_retries, phase, ret, exc,
                   outcome, op, lastLogin, failedRun, tokenRejected>>

\* lines 475-476: authenticate() returned inside token
RequestTokenObtained ==
    /\ At("request", "token")
    /\ ret.fn = "authenticate"
    /\ stack' = SetTop([Top EXCEPT !.pc = "send"])
    /\ ret' = NoRet
    /\ UNCHANGED <<creds, urls, instances, serial, routing, transport, store, ACCESS_TOKEN, authentication_retries, phase, exc,
                   outcome, op, lastLogin, failedRun, tokenRejected>>

\* history kept when the frame on top receives status s
Received(f, s) ==
    [op EXCEPT
       !.netCalls = Inc(@),
       !.only401 = @ /\ Unauthorized(s),
       !.rootSends = IF f.root THEN Inc(@) ELSE @,
       !.first401 = IF f.root /\ f.gen = 0 THEN Unauthorized(s) ELSE @,
       !.replayStatus = IF f.root /\ f.gen = 1 THEN s ELSE @,
       !.valBad = IF /\ Depth = 3 /\ f.gen = 0
                     /\ stack[1].fn = "authenticate" /\ stack[2].fn = "validate"
                     /\ s # 200
                  THEN TRUE ELSE @,
       \* the validation call of the re-authentication started by the original send
       !.reauthValBad = IF /\ Depth = 4 /\ f.gen = 0
                           /\ stack[1].fn = "request" /\ stack[1].pc = "reauth"
                           /\ stack[1].gen = 0
                           /\ stack[2].fn = "authenticate" /\ stack[3].fn = "validate"
                           /\ s # 200
                        THEN TRUE ELSE @]

\* lines 419, 422: session.request(...) is answered with status s
RequestSend ==
    /\ At("request", "send")
    /\ \E s \in Statuses :
          /\ stack' = SetTop([Top EXCEPT !.pc = "responded", !.status = s])
          /\ op' = Received(Top, s)
    /\ UNCHANGED <<creds, urls, instances, serial, routing, transport, store, ACCESS_TOKEN, authentication_retries, phase, ret, exc,
                   outcome, lastLogin, failedRun, tokenRejected>>

\* lines 428-430: self.authenticate()
RequestReauthenticate ==
    /\ At("request", "responded")
    /\ Unauthorized(Top.status)
    /\ CanCall
    /\ Call([Top EXCEPT !.pc = "reauth"], AuthenticateFrame)
    /\ op' = [op EXCEPT !.reauthCalls = Inc(@)]
    /\ UNCHANGED <<creds, urls, instances, serial, routing, transport, store, ACCESS_TOKEN, authentication_retries, lastLogin,
                   failedRun, tokenRejected>>

\* the arguments of the replay
ReplayFrame(f) == RequestFrame(f.method, f.url, f.payload, f.gen + 1, f.root)

\* line 431: self.request(method, url, payload)
RequestReplay ==
    /\ At("request", "reauth")
    /\ ret.fn = "authenticate"
    /\ CanCall
    /\ Call([Top EXCEPT !.pc = "replaying"], ReplayFrame(Top))
    /\ op' = [op EXCEPT !.reauthOk = IF Top.root /\ Top.gen = 0 THEN TRUE ELSE @]
    /\ UNCHANGED <<creds, urls, instances, serial, routing, transport, store, ACCESS_TOKEN, authentication_retries, lastLogin,
                   failedRun, tokenRejected>>

\* line 431: return what the replay returned
RequestReturnReplay ==
    /\ At("request", "replaying")
    /\ ret.fn = "request"
    /\ ReturnTo(Pop, "request", ret.val)
    /\ UNCHANGED <<creds, urls, instances, serial, routing, transport, store, ACCESS_TOKEN, authentication_retries, op, lastLogin,
                   failedRun, tokenRejected>>

\* line 434: if response.status_code != 200
LogsError(s) == s # 200

\* lines 434-439: every other response is returned, logged as an error unless 200
RequestReturn ==
    /\ At("request", "responded")
    /\ ~Unauthorized(Top.status)
    /\ op' = [op EXCEPT !.errorLogs = IF LogsError(Top.status) THEN Inc(@) ELSE @]
    /\ ReturnTo(Pop, "request", Top.status)
    /\ UNCHANGED <<creds, urls, instances, serial, routing, transport, store, ACCESS_TOKEN, authentication_retries, lastLogin,
                   failedRun, tokenRejected>>

----------------------------------------------------------------------------
(* Exceptions and the interpreter's recursion limit *)

\* an exception leaves a frame that does not handle it
Propagate ==
    /\ Depth > 0
    /\ exc # NoExc
    /\ ~(Top.fn = "authenticate" /\ Top.pc = "validating")
    /\ RaiseTo(Pop, exc)
    /\ UNCHANGED <<creds, urls, instances, serial, routing, transport, store, ACCESS_TOKEN, authentication_retries, op, lastLogin,
                   failedRun, tokenRejected>>

AboutToCall ==
    \/ At("authenticate", "validate")
    \/ At("validate", "start")
    \/ At("request", "headers") /\ ACCESS_TOKEN # Unset /\ TokenMissing
    \/ At("request", "responded") /\ Unauthorized(Top.status)
    \/ At("request", "reauth") /\ ret.fn = "authenticate"

\* a call at the deepest stack raises RecursionError in the caller
RecursionLimit ==
    /\ AboutToCall
    /\ ~CanCall
    /\ RaiseTo(Pop, ErrRecursion)
    /\ IF Top.fn = "authenticate" THEN AuthFailed(Top) ELSE UNCHANGED failedRun
    /\ UNCHANGED <<creds, urls, instances, serial, routing, transport, store, ACCESS_TOKEN, authentication_retries, op, lastLogin,
                   tokenRejected>>

----------------------------------------------------------------------------
(* Calls made by the user of a constructed client *)

Idle == Depth = 0 /\ phase = "ready"

Enter(frame, kind) ==
    /\ Idle
    /\ stack' = <<frame>>
    /\ op' = NewOp(kind)
    /\ outcome' = NoOutcome
    /\ UNCHANGED <<creds, urls, instances, serial, routing, transport, store, ACCESS_TOKEN, authentication_retries, phase, ret, exc,
                   lastLogin, failedRun, tokenRejected>>

CallAuthenticate == Enter(AuthenticateFrame, "authenticate")

CallValidate == Enter(ValidateFrame, "validate")

CallRequest ==
    \E a \in RequestArgs :
        Enter(RequestFrame(a[1], a[2], a[3], 0, TRUE), "request")

----------------------------------------------------------------------------

Next ==
    \/ AuthExhausted
    \/ AuthNoCredentials
    \/ AuthApiKey
    \/ AuthLoginAccepted
    \/ AuthLoginRejected
    \/ AuthCallValidate
    \/ AuthSucceed
    \/ AuthValidationFailed
    \/ ValidateCall
    \/ ValidateOk
    \/ ValidateFail
    \/ RequestInvalidMethod
    \/ RequestEmptyPayload
    \/ RequestPrepare
    \/ RequestTokenUnset
    \/ RequestTokenAuthenticate
    \/ RequestTokenReady
    \/ RequestTokenObtained
    \/ RequestSend
    \/ RequestReauthenticate
    \/ RequestReplay
    \/ RequestReturnReplay
    \/ RequestReturn
    \/ Propagate
    \/ RecursionLimit
    \/ CallAuthenticate
    \/ CallValidate
    \/ CallRequest

Spec == Init /\ [][Next]_vars

\* Every call is synchronous and blocks its caller until it is answered: a
\* call in progress takes its next step, and a request sent is answered.
SpecFair == Spec /\ WF_vars(Next)

-----------------------------------------------------------------------------
(* Client.manager: endpoint strings.  A string is the sequence of its
   characters, so that lower() and the `in` substring test are computed. *)

Capitals == <<"A", "B", "C", "D", "E", "F", "G", "H", "I", "J", "K", "L", "M",
              "N", "O", "P", "Q", "R", "S", "T", "U", "V", "W", "X", "Y", "Z">>
Smalls == <<"a", "b", "c", "d", "e", "f", "g", "h", "i", "j", "k", "l", "m",
            "n", "o", "p", "q", "r", "s", "t", "u", "v", "w", "x", "y", "z">>

\* str.lower()
LowerChar(c) ==
    IF \E i \in DOMAIN Capitals : Capitals[i] = c
    THEN Smalls[CHOOSE i \in DOMAIN Capitals : Capitals[i] = c]
    ELSE c
Lower(s) == [i \in DOMAIN s |-> LowerChar(s[i])]

\* sub in s
Contains(s, sub) ==
    \E i \in 1..(Len(s) - Len(sub) + 1) : SubSeq(s, i, i + Len(sub) - 1) = sub

\* the string literals of manager()
Literals ==
    [ orders |-> <<"o", "r", "d", "e", "r", "s">>,
      orders_items |-> <<"o", "r", "d", "e", "r", "s", "/", "i", "t", "e", "m", "s">>,
      invoices |-> <<"i", "n", "v", "o", "i", "c", "e", "s">>,
      taxes |-> <<"t", "a", "x", "e", "s">>,
      categories |-> <<"c", "a", "t", "e", "g", "o", "r", "i", "e", "s">>,
      products |-> <<"p", "r", "o", "d", "u", "c", "t", "s">>,
      products_attributes |-> <<"p", "r", "o", "d", "u", "c", "t", "s", "/", "a", "t", "t", "r", "i", "b", "u", "t", "e", "s">>,
      products_attribute_sets |-> <<"p", "r", "o", "d", "u", "c", "t", "s", "/", "a", "t", "t", "r", "i", "b", "u", "t", "e", "-", "s", "e", "t", "s">>,
      products_attribute_sets_list |-> <<"p", "r", "o", "d", "u", "c", "t", "s", "/", "a", "t", "t", "r", "i", "b", "u", "t", "e", "-", "s", "e", "t", "s", "/", "l", "i", "s", "t">>,
      shipment |-> <<"s", "h", "i", "p", "m", "e", "n", "t">>,
      shipments |-> <<"s", "h", "i", "p", "m", "e", "n", "t", "s">>,
      customers |-> <<"c", "u", "s", "t", "o", "m", "e", "r", "s">>,
      customers_search |-> <<"c", "u", "s", "t", "o", "m", "e", "r", "s", "/", "s", "e", "a", "r", "c", "h">>,
      slash_options |-> <<"/", "o", "p", "t", "i", "o", "n", "s">>,
      products_slash |-> <<"p", "r", "o", "d", "u", "c", "t", "s", "/">>,
      slash_media |-> <<"/", "m", "e", "d", "i", "a">> ]

\* the endpoints manager() is called with
Endpoints == {
    <<"o", "r", "d", "e", "r", "s">>,
    <<"O", "R", "D", "E", "R", "S">>,
    <<"o", "r", "d", "e", "r", "s", "/", "i", "t", "e", "m", "s">>,
    <<"O", "r", "d", "e", "r", "s", "/", "I", "t", "e", "m", "s">>,
    <<"i", "n", "v", "o", "i", "c", "e", "s">>,
    <<"t", "a", "x", "e", "s">>,
    <<"c", "a", "t", "e", "g", "o", "r", "i", "e", "s">>,
    <<"C", "a", "t", "e", "g", "o", "r", "i", "e", "s">>,
    <<"p", "r", "o", "d", "u", "c", "t", "s">>,
    <<"P", "r", "o", "d", "u", "c", "t", "s">>,
    <<"p", "r", "o", "d", "u", "c", "t", "s", "/", "a", "t", "t", "r", "i", "b", "u", "t", "e", "s">>,
    <<"p", "r", "o", "d", "u", "c", "t", "s", "/", "a", "t", "t", "r", "i", "b", "u", "t", "e", "-", "s", "e", "t", "s">>,
    <<"p", "r", "o", "d", "u", "c", "t", "s", "/", "a", "t", "t", "r", "i", "b", "u", "t", "e", "-", "s", "e", "t", "s", "/", "l", "i", "s", "t">>,
    <<"s", "h", "i", "p", "m", "e", "n", "t">>,
    <<"s", "h", "i", "p", "m", "e", "n", "t", "s">>,
    <<"S", "h", "i", "p", "m", "e", "n", "t", "s">>,
    <<"c", "u", "s", "t", "o", "m", "e", "r", "s">>,
    <<"c", "u", "s", "t", "o", "m", "e", "r", "s", "/", "s", "e", "a", "r", "c", "h">>,
    <<"p", "r", "o", "d", "u", "c", "t", "s", "/", "a", "t", "t", "r", "i", "b", "u", "t", "e", "s", "/", "c", "o", "l", "o", "r", "/", "o", "p", "t", "i", "o", "n", "s">>,
    <<"P", "r", "o", "d", "u", "c", "t", "s", "/", "A", "t", "t", "r", "i", "b", "u", "t", "e", "s", "/", "c", "o", "l", "o", "r", "/", "O", "p", "t", "i", "o", "n", "s">>,
    <<"p", "r", "o", "d", "u", "c", "t", "s", "/", "f", "o", "o", "/", "o", "p", "t", "i", "o", "n", "s">>,
    <<"p", "r", "o", "d", "u", "c", "t", "s", "/", "a", "t", "t", "r", "1", "2", "3", "/", "o", "p", "t", "i", "o", "n", "s">>,
    <<"p", "r", "o", "d", "u", "c", "t", "s", "/", "s", "k", "u", "1", "/", "m", "e", "d", "i", "a">>,
    <<"P", "R", "O", "D", "U", "C", "T", "S", "/", "s", "k", "u", "1", "/", "M", "E", "D", "I", "A">>,
    <<"p", "r", "o", "d", "u", "c", "t", "s", "/", "a", "t", "t", "r", "i", "b", "u", "t", "e", "s", "/", "c", "o", "l", "o", "r", "/", "o", "p", "t", "i", "o", "n", "s", "/", "m", "e", "d", "i", "a">>,
    <<"p", "r", "o", "d", "u", "c", "t", "s", "/", "a", "t", "t", "r", "i", "b", "u", "t", "e", "s", "/", "m", "e", "d", "i", "a", "_", "g", "a", "l", "l", "e", "r", "y", "/", "o", "p", "t", "i", "o", "n", "s">>,
    <<"s", "t", "o", "c", "k", "I", "t", "e", "m", "s">>,
    <<"s", "t", "o", "c", "k", "i", "t", "e", "m", "s">>,
    <<"o", "r", "d", "e", "r", "s", "/", "1">>,
    <<"c", "u", "s", "t", "o", "m", "e", "r", "s", "/", "m", "e">>
}

(* Client.manager: the ordered comparisons, each on endpoint.lower() *)

IsOrdersCaseSensitive(endpoint) == endpoint = Literals.orders
IsOrders(endpoint) == Lower(endpoint) = Literals.orders

IsAttributeOptionsCaseSensitive(endpoint) ==
    Contains(endpoint, Literals.products_attributes) /\ Contains(endpoint, Literals.slash_options)
IsAttributeOptions(endpoint) ==
    /\ Contains(Lower(endpoint), Literals.products_attributes)
    /\ Contains(Lower(endpoint), Literals.slash_options)

IsMediaEntries(endpoint) ==
    /\ Contains(Lower(endpoint), Literals.products_slash)
    /\ Contains(Lower(endpoint), Literals.slash_media)

\* The endpoints compared with == (or `in` a tuple of names) in manager().
ExactNames == {Literals.orders, Literals.orders_items, Literals.invoices, Literals.taxes, Literals.categories, Literals.products,
               Literals.products_attributes, Literals.products_attribute_sets,
               Literals.products_attribute_sets_list, Literals.shipment, Literals.shipments,
               Literals.customers, Literals.customers_search}

\* The property (or the Manager class) manager() returns for an endpoint.
RouteMediaFirst(endpoint) ==
    LET lower == Lower(endpoint) IN
    IF IsOrders(endpoint) THEN "orders"
    ELSE IF lower = Literals.orders_items THEN "order_items"
    ELSE IF lower = Literals.invoices THEN "invoices"
    ELSE IF lower = Literals.taxes THEN "taxes"
    ELSE IF lower = Literals.categories THEN "categories"
    ELSE IF lower = Literals.products THEN "products"
    ELSE IF lower = Literals.products_attributes THEN "product_attributes"
    ELSE IF lower = Literals.products_attribute_sets \/ lower = Literals.products_attribute_sets_list
         THEN "product_attribute_set"
    ELSE IF lower = Literals.shipment \/ lower = Literals.shipments THEN "shipments"
    ELSE IF lower \in {Literals.customers, Literals.customers_search} THEN "customers"
    ELSE IF IsMediaEntries(endpoint) THEN "product_media_entries"
    ELSE IF IsAttributeOptions(endpoint) THEN "product_attribute_options"
    ELSE "Manager"
Route(endpoint) ==
    LET lower == Lower(endpoint) IN
    IF IsOrders(endpoint) THEN "orders"
    ELSE IF lower = Literals.orders_items THEN "order_items"
    ELSE IF lower = Literals.invoices THEN "invoices"
    ELSE IF lower = Literals.taxes THEN "taxes"
    ELSE IF lower = Literals.categories THEN "categories"
    ELSE IF lower = Literals.products THEN "products"
    ELSE IF lower = Literals.products_attributes THEN "product_attributes"
    ELSE IF lower = Literals.products_attribute_sets \/ lower = Literals.products_attribute_sets_list
         THEN "product_attribute_set"
    ELSE IF lower = Literals.shipment \/ lower = Literals.shipments THEN "shipments"
    ELSE IF lower \in {Literals.customers, Literals.customers_search} THEN "customers"
    ELSE IF IsAttributeOptions(endpoint) THEN "product_attribute_options"
    ELSE IF IsMediaEntries(endpoint) THEN "product_media_entries"
    ELSE "Manager"

\* Route, tabulated over the endpoints of the model
Routes == [endpoint \in Endpoints |-> Route(endpoint)]

\* the families whose property builds a new manager from the client alone
TableFamilies == {"orders", "order_items", "invoices", "taxes", "categories",
                  "products", "product_attributes", "product_attribute_set",
                  "shipments", "customers"}

\* Manager(endpoint=endpoint, client=self): the endpoint is passed as given
GenericEndpointLowered(endpoint) == Lower(endpoint)
GenericEndpoint(endpoint) == endpoint

\* prerequisite values: ProductAttribute and Product objects, by name
Attributes == {"color", "size"}
MediaProducts == {"sku1", "sku2"}

ErrAttributeNotSet == "AttributeError:product_attribute_options_attribute"
ErrProductNotSet == "AttributeError:media_entries_product"

\* not hasattr(self, name) or self.name is None
PrerequisiteMissingUnsetOnly(v) == v = Unset
PrerequisiteMissing(v) == v = Unset \/ v = None

\* A stored handler is written as the prerequisite value it was constructed
\* with.  The setter deletes the stored handler, if there is one.
AfterSetterKeepsHandler(handler) == handler
AfterSetter(handler) == Unset

\* manager() and the setters touch no other state of the client
ClientUntouched ==
    UNCHANGED <<creds, urls, instances, serial, transport, store, ACCESS_TOKEN, authentication_retries, phase,
                stack, ret, exc, outcome, op, lastLogin, failedRun, tokenRejected>>

Called(endpoint, family) ==
    [kind |-> "manager", endpoint |-> endpoint, family |-> family,
     mgrEndpoint |-> <<>>, mgrArg |-> None, raised |-> NoExc,
     constructed |-> FALSE]

\* manager(endpoint) returning one of the properties of lines 215-258, 316-319
ManagerTable(endpoint) ==
    /\ Routes[endpoint] \in TableFamilies
    /\ call' = [Called(endpoint, Routes[endpoint]) EXCEPT !.constructed = TRUE]
    /\ ClientUntouched
    /\ UNCHANGED <<product_attribute_options_attribute, product_attribute_options,
                   media_entries_product, media_entry_manager, discarded>>

\* manager(endpoint) -> product_attribute_options: no stored handler and no
\* attribute, AttributeError
ManagerAttributeOptionsNotSet(endpoint) ==
    /\ Routes[endpoint] = "product_attribute_options"
    /\ PrerequisiteMissing(product_attribute_options)
    /\ PrerequisiteMissing(product_attribute_options_attribute)
    /\ call' = [Called(endpoint, "product_attribute_options")
                   EXCEPT !.raised = ErrAttributeNotSet]
    /\ ClientUntouched
    /\ UNCHANGED <<product_attribute_options_attribute, product_attribute_options,
                   media_entries_product, media_entry_manager, discarded>>

\* manager(endpoint) -> product_attribute_options: the handler is constructed
\* (again) with the current attribute, stored and returned
ManagerAttributeOptions(endpoint) ==
    /\ Routes[endpoint] = "product_attribute_options"
    /\ ~(/\ PrerequisiteMissing(product_attribute_options)
         /\ PrerequisiteMissing(product_attribute_options_attribute))
    /\ product_attribute_options' = product_attribute_options_attribute
    /\ call' = [Called(endpoint, "product_attribute_options")
                   EXCEPT !.mgrArg = product_attribute_options_attribute,
                          !.constructed = TRUE]
    /\ ClientUntouched
    /\ UNCHANGED <<product_attribute_options_attribute, media_entries_product,
                   media_entry_manager, discarded>>

ManagerMediaEntriesNotSet(endpoint) ==
    /\ Routes[endpoint] = "product_media_entries"
    /\ PrerequisiteMissing(media_entry_manager)
    /\ PrerequisiteMissing(media_entries_product)
    /\ call' = [Called(endpoint, "product_media_entries")
                   EXCEPT !.raised = ErrProductNotSet]
    /\ ClientUntouched
    /\ UNCHANGED <<product_attribute_options_attribute, product_attribute_options,
                   media_entries_product, media_entry_manager, discarded>>

ManagerMediaEntries(endpoint) ==
    /\ Routes[endpoint] = "product_media_entries"
    /\ ~(/\ PrerequisiteMissing(media_entry_manager)
         /\ PrerequisiteMissing(media_entries_product))
    /\ media_entry_manager' = media_entries_product
    /\ call' = [Called(endpoint, "product_media_entries")
                   EXCEPT !.mgrArg = media_entries_product,
                          !.constructed = TRUE]
    /\ ClientUntouched
    /\ UNCHANGED <<product_attribute_options_attribute, product_attribute_options,
                   media_entries_product, discarded>>

\* manager(endpoint) falling through to the general Manager
ManagerGeneric(endpoint) ==
    /\ Routes[endpoint] = "Manager"
    /\ call' = [Called(endpoint, "Manager")
                   EXCEPT !.mgrEndpoint = GenericEndpoint(endpoint),
                          !.constructed = TRUE]
    /\ ClientUntouched
    /\ UNCHANGED <<product_attribute_options_attribute, product_attribute_options,
                   media_entries_product, media_entry_manager, discarded>>

\* client.product_attribute_options_attribute = attribute
SetProductAttributeOptionsAttribute(attribute) ==
    /\ product_attribute_options' = AfterSetter(product_attribute_options)
    /\ product_attribute_options_attribute' = attribute
    /\ discarded' = IF product_attribute_options # Unset
                    THEN [discarded EXCEPT !.options = product_attribute_options]
                    ELSE discarded
    /\ call' = [NoCall EXCEPT !.kind = "set_attribute", !.mgrArg = attribute]
    /\ ClientUntouched
    /\ UNCHANGED <<media_entries_product, media_entry_manager>>

\* client.media_entries_product = product
SetMediaEntriesProductClearsBoth(product) ==
    /\ media_entry_manager' = AfterSetter(media_entry_manager)
    /\ media_entries_product' = product
    /\ product_attribute_options' = Unset
    /\ discarded' = IF media_entry_manager # Unset
                    THEN [discarded EXCEPT !.media = media_entry_manager]
                    ELSE discarded
    /\ call' = [NoCall EXCEPT !.kind = "set_product", !.mgrArg = product]
    /\ ClientUntouched
    /\ UNCHANGED product_attribute_options_attribute
SetMediaEntriesProduct(product) ==
    /\ media_entry_manager' = AfterSetter(media_entry_manager)
    /\ media_entries_product' = product
    /\ discarded' = IF media_entry_manager # Unset
                    THEN [discarded EXCEPT !.media = media_entry_manager]
                    ELSE discarded
    /\ call' = [NoCall EXCEPT !.kind = "set_product", !.mgrArg = product]
    /\ ClientUntouched
    /\ UNCHANGED <<product_attribute_options_attribute, product_attribute_options>>

\* The router is used on a constructed client between its requests.
InitRouter == Init /\ phase = "ready"

NextRouter ==
    \/ \E endpoint \in Endpoints : ManagerTable(endpoint)
    \/ \E endpoint \in Endpoints : ManagerAttributeOptionsNotSet(endpoint)
    \/ \E endpoint \in Endpoints : ManagerAttributeOptions(endpoint)
    \/ \E endpoint \in Endpoints : ManagerMediaEntriesNotSet(endpoint)
    \/ \E endpoint \in Endpoints : ManagerMediaEntries(endpoint)
    \/ \E endpoint \in Endpoints : ManagerGeneric(endpoint)
    \/ \E attribute \in Attributes \cup {None} : SetProductAttributeOptionsAttribute(attribute)
    \/ \E product \in MediaProducts \cup {None} : SetMediaEntriesProduct(product)

SpecRouter == InitRouter /\ [][NextRouter]_vars

-----------------------------------------------------------------------------
(* The session of Client.__init__: one send of request() through
   self.session.request, with the Retry policy of the mounted adapter *)

RetryTotal == 3
StatusForcelist == {502, 503, 504}
AllowedMethods == {"POST", "PUT"}

\* the methods request() passes to the session (already upper-cased)
SessionMethods == {"GET", "DELETE", "POST", "PUT"}
\* the statuses the server answers one send with
SessionStatuses == {200, 500, 502, 503, 504}

\* BASE_URL's scheme, and the prefix the retrying adapter is mounted on; any
\* other URL goes through the session's default adapter, which retries nothing
Scheme == IF local THEN "http" ELSE "https"
MountedPrefix == "https"
RetryMounted == Scheme = MountedPrefix

ShouldRetry(method, status) ==
    /\ RetryMounted
    /\ method \in AllowedMethods
    /\ status \in StatusForcelist

SessionUntouched ==
    UNCHANGED <<creds, urls, instances, serial, routing, store, local, ACCESS_TOKEN, authentication_retries, phase,
                stack, ret, exc, outcome, op, lastLogin, failedRun, tokenRejected>>

\* self.session.request(method, url, ...): the first send
SessionRequest(method) ==
    /\ tx.state # "sent"
    /\ tx' = [state |-> "sent", method |-> method, responses |-> <<>>]
    /\ SessionUntouched

\* an answer the policy does not retry is the response of the call
SessionReturn(status) ==
    /\ tx.state = "sent"
    /\ ~ShouldRetry(tx.method, status)
    /\ tx' = [tx EXCEPT !.state = "returned", !.responses = Append(@, status)]
    /\ SessionUntouched

\* a 502/503/504 to POST or PUT with retries left: back off and send again
SessionRetry(status) ==
    /\ tx.state = "sent"
    /\ ShouldRetry(tx.method, status)
    /\ Len(tx.responses) < RetryTotal
    /\ tx' = [tx EXCEPT !.responses = Append(@, status)]
    /\ SessionUntouched

\* the same with no retry left: the session raises RetryError
SessionRetriesExhausted(status) ==
    /\ tx.state = "sent"
    /\ ShouldRetry(tx.method, status)
    /\ Len(tx.responses) >= RetryTotal
    /\ tx' = [tx EXCEPT !.state = "raised", !.responses = Append(@, status)]
    /\ SessionUntouched

InitTransport ==
    /\ InitClient
    /\ InitRouting
    /\ InitStore
    /\ scope = Empty
    /\ phase = "ready"
    /\ local \in BOOLEAN
    /\ tx = NoTx
    /\ domain = <<"d", ".", "c", "o">>
    /\ InitUrls
    /\ InitSerial
    /\ instances = NoInstances

NextTransport ==
    \/ \E method \in SessionMethods : SessionRequest(method)
    \/ \E status \in SessionStatuses : SessionReturn(status)
    \/ \E status \in SessionStatuses : SessionRetry(status)
    \/ \E status \in SessionStatuses : SessionRetriesExhausted(status)

SpecTransport == InitTransport /\ [][NextTransport]_vars

-----------------------------------------------------------------------------
(* Store: the cached properties, active, filter_website_attrs and refresh.
   A search through a manager (execute_search, all_in_memory) is the
   environment: it answers with one of the lists below.  Every access to a
   cached property is a frame of the reader's stack, so that refresh() run
   by a second thread of a shared client can interleave with it. *)

\* the values of StoreCode and Scope
StoreCodeDefault == "default"
StoreCodeAll == "all"
ScopeGlobal == "global"
ScopeWebsite == "website"
ScopeStore == "store"

Scopes == {Empty, StoreCodeAll, StoreCodeDefault, "en"}

Config(code, id) == [code |-> code, id |-> id]
ConfigLists ==
    { <<>>,
      <<Config("default", 2), Config("default", 1)>>,
      <<Config("en", 3), Config("fr", 1), Config("en", 2)>>,
      <<Config("default", 1), Config("en", 2)>> }

Attr(code, s) == [attribute_code |-> code, scope |-> s]
AttributeLists ==
    { <<>>,
      <<Attr("name", ScopeGlobal), Attr("price", ScopeWebsite),
        Attr("cost", ScopeWebsite), Attr("meta_title", ScopeStore)>>,
      <<Attr("price", ScopeStore), Attr("meta_title", ScopeWebsite)>> }

\* attribute_data of filter_website_attrs: the items of a dict, in its order
Item(k, v) == [key |-> k, value |-> v]
AttributeData ==
    { <<>>,
      <<Item("price", "12"), Item("meta_title", "x")>>,
      <<Item("meta_title", "x"), Item("name", "n"), Item("cost", "3")>> }

\* what the search behind a fetched property can answer
ListsFor(name) ==
    IF name = "configs" THEN ConfigLists
    ELSE IF name = "all_product_attributes" THEN AttributeLists
    ELSE {<<Config("default", 1)>>}

\* the property a derived cached property reads
Dependency(name) ==
    IF name = "website_attribute_codes" THEN "website_product_attributes"
    ELSE "all_product_attributes"

\* the scope tag each partition keeps
PartitionScopeGlobalAsWebsite(name) ==
    IF name = "store_view_product_attributes" THEN ScopeStore ELSE ScopeWebsite
PartitionScope(name) ==
    IF name = "store_view_product_attributes" THEN ScopeStore
    ELSE IF name = "website_product_attributes" THEN ScopeWebsite
    ELSE ScopeGlobal

KeepsScope(attr, name) == attr.scope = PartitionScope(name)

\* the list comprehension of a derived property over the list it reads
Derive(name, list) ==
    IF name = "website_attribute_codes"
    THEN [i \in DOMAIN list |-> list[i].attribute_code]
    ELSE SelectSeq(list, LAMBDA attr : KeepsScope(attr, name))

\* active: the store code looked for
StoreCodeOfDefault(s) == StoreCodeDefault
StoreCodeOf(s) == IF s \in {Empty, StoreCodeAll} THEN StoreCodeDefault ELSE s

\* the first config of the list with that code (the for loop), if any
FirstWithCode(configs, code) ==
    LET matches == {i \in DOMAIN configs : configs[i].code = code}
    IN  IF matches = {} THEN 0
        ELSE CHOOSE i \in matches : \A j \in matches : i <= j

\* sorted(configs, key=id)[0]: sorted is stable, so the first of the configs
\* with the smallest id
FirstOfList(configs) == configs[1]
SmallestId(configs) ==
    LET least == {i \in DOMAIN configs : \A j \in DOMAIN configs : configs[i].id <= configs[j].id}
    IN  configs[CHOOSE i \in least : \A j \in least : i <= j]

ErrIndex == "IndexError"

\* k in self.website_attribute_codes
IsNotWebsiteCode(k, codes) == \A i \in DOMAIN codes : codes[i] # k
IsWebsiteCode(k, codes) == \E i \in DOMAIN codes : codes[i] = k

\* the keys refresh() pops, in its order
RefreshKeysListOnly == <<"all_product_attributes">>
RefreshKeys ==
    <<"configs", "views", "all_product_attributes", "store_view_product_attributes",
      "website_product_attributes", "global_product_attributes",
      "website_attribute_codes">>

\* Bound: refresh() calls in one behaviour
MaxRefreshes == 2

StoreFrame(name, pc) == [name |-> name, pc |-> pc, val |-> NoEntry]
ReaderTop == reader.stack[Len(reader.stack)]
ReaderAt(names, pc) ==
    /\ reader.stack # <<>>
    /\ ReaderTop.name \in names
    /\ ReaderTop.pc = pc
Memoized(name) == name \in CachedProperties /\ store_dict[name].has

\* the Store touches nothing else of the client
StoreUntouched ==
    UNCHANGED <<creds, urls, instances, serial, routing, transport, scope, ACCESS_TOKEN,
                authentication_retries, phase, stack, ret, exc, outcome, op,
                lastLogin, failedRun, tokenRejected>>

\* the reader's stack with its top frame changed, or with a frame pushed on it
ReaderSet(frame) == [reader.stack EXCEPT ![Len(reader.stack)] = frame]
ReaderCall(pc, callee) ==
    Append(ReaderSet([ReaderTop EXCEPT !.pc = pc]), StoreFrame(callee, "start"))

\* The top frame returns: to the frame below, or to the user of the Store.
ReaderReturn(result, raised, gen) ==
    IF Len(reader.stack) = 1
    THEN /\ reader' = [reader EXCEPT !.stack = <<>>, !.acc = NoEntry]
         /\ storeCall' = [op |-> ReaderTop.name, result |-> result,
                          raised |-> raised, gen |-> gen]
    ELSE /\ reader' = [reader EXCEPT
                          !.stack = SubSeq(@, 1, Len(@) - 1),
                          !.acc = [has |-> TRUE, val |-> result, gen |-> gen]]
         /\ UNCHANGED storeCall

\* store.<property>, store.active or store.filter_website_attrs(data) is called.
\* A thread of an unshared client is not inside refresh() at that time.
StoreCall(name, data) ==
    /\ reader.stack = <<>>
    /\ refresher.shared \/ refresher.pc = 0
    /\ reader' = [stack |-> <<StoreFrame(name, "start")>>, acc |-> NoEntry,
                  data |-> data]
    /\ storeCall' = NoStoreCall
    /\ UNCHANGED <<store_dict, net, refresher>>
    /\ StoreUntouched

\* cached_property.__get__: the key is in __dict__
PropertyHit ==
    /\ ReaderAt(CachedProperties \cup FetchedProperties, "start")
    /\ Memoized(ReaderTop.name)
    /\ ReaderReturn(store_dict[ReaderTop.name].val, NoExc, store_dict[ReaderTop.name].gen)
    /\ UNCHANGED <<store_dict, net, refresher>>
    /\ StoreUntouched

\* cached_property.__get__: the key is missing, the function is called
PropertyMiss ==
    /\ ReaderAt(CachedProperties \cup FetchedProperties, "start")
    /\ ~Memoized(ReaderTop.name)
    /\ reader' = [reader EXCEPT !.stack =
            IF ReaderTop.name \in FetchedProperties
            THEN ReaderSet([ReaderTop EXCEPT !.pc = "fetch"])
            ELSE ReaderCall("derive", Dependency(ReaderTop.name))]
    /\ UNCHANGED <<store_dict, net, refresher, storeCall>>
    /\ StoreUntouched

\* configs, views, websites, all_product_attributes: the search answers
PropertyFetch(list) ==
    /\ ReaderAt(FetchedProperties, "fetch")
    /\ list \in ListsFor(ReaderTop.name)
    /\ reader' = [reader EXCEPT !.stack = ReaderSet(
            [ReaderTop EXCEPT !.pc = "store",
                              !.val = [has |-> TRUE, val |-> list, gen |-> net.refreshes]])]
    /\ net' = [net EXCEPT !.fetches[ReaderTop.name] = Inc(@)]
    /\ UNCHANGED <<store_dict, refresher, storeCall>>
    /\ StoreUntouched

\* a derived property: the property it reads has returned
PropertyDerive ==
    /\ ReaderAt(CachedProperties \ FetchedProperties, "derive")
    /\ reader' = [reader EXCEPT !.stack = ReaderSet(
            [ReaderTop EXCEPT !.pc = "store",
                              !.val = [has |-> TRUE,
                                       val |-> Derive(ReaderTop.name, reader.acc.val),
                                       gen |-> reader.acc.gen]])]
    /\ UNCHANGED <<store_dict, net, refresher, storeCall>>
    /\ StoreUntouched

\* cached_property.__get__: the value is put in __dict__ and returned
PropertyStore ==
    /\ ReaderAt(CachedProperties \cup FetchedProperties, "store")
    /\ store_dict' = IF ReaderTop.name \in CachedProperties
                     THEN [store_dict EXCEPT ![ReaderTop.name] = ReaderTop.val]
                     ELSE store_dict
    /\ ReaderReturn(ReaderTop.val.val, NoExc, ReaderTop.val.gen)
    /\ UNCHANGED <<net, refresher>>
    /\ StoreUntouched

\* active: for store in self.configs
ActiveConfigs ==
    /\ ReaderAt({"active"}, "start")
    /\ reader' = [reader EXCEPT !.stack = ReaderCall("loop", "configs")]
    /\ UNCHANGED <<store_dict, net, refresher, storeCall>>
    /\ StoreUntouched

\* active: the loop returns the first config with the code
ActiveFound ==
    /\ ReaderAt({"active"}, "loop")
    /\ FirstWithCode(reader.acc.val, StoreCodeOf(scope)) # 0
    /\ ReaderReturn(<<reader.acc.val[FirstWithCode(reader.acc.val, StoreCodeOf(scope))]>>,
                    NoExc, reader.acc.gen)
    /\ UNCHANGED <<store_dict, net, refresher>>
    /\ StoreUntouched

\* active: no config with the code, and the code is not 'default': None
ActiveNone ==
    /\ ReaderAt({"active"}, "loop")
    /\ FirstWithCode(reader.acc.val, StoreCodeOf(scope)) = 0
    /\ StoreCodeOf(scope) # StoreCodeDefault
    /\ ReaderReturn(<<>>, NoExc, reader.acc.gen)
    /\ UNCHANGED <<store_dict, net, refresher>>
    /\ StoreUntouched

\* active: no config with the code 'default': self.configs is read again
ActiveFallback ==
    /\ ReaderAt({"active"}, "loop")
    /\ FirstWithCode(reader.acc.val, StoreCodeOf(scope)) = 0
    /\ StoreCodeOf(scope) = StoreCodeDefault
    /\ reader' = [reader EXCEPT !.stack = ReaderCall("sorted", "configs")]
    /\ UNCHANGED <<store_dict, net, refresher, storeCall>>
    /\ StoreUntouched

\* active: sorted(self.configs, key=id)[0]
ActiveSmallestId ==
    /\ ReaderAt({"active"}, "sorted")
    /\ reader.acc.val # <<>>
    /\ ReaderReturn(<<SmallestId(reader.acc.val)>>, NoExc, reader.acc.gen)
    /\ UNCHANGED <<store_dict, net, refresher>>
    /\ StoreUntouched

\* active: sorted([])[0] raises IndexError
ActiveIndexError ==
    /\ ReaderAt({"active"}, "sorted")
    /\ reader.acc.val = <<>>
    /\ ReaderReturn(<<>>, ErrIndex, reader.acc.gen)
    /\ UNCHANGED <<store_dict, net, refresher>>
    /\ StoreUntouched

\* filter_website_attrs({}): the comprehension reads nothing
FilterEmpty ==
    /\ ReaderAt({"filter_website_attrs"}, "start")
    /\ reader.data = <<>>
    /\ ReaderReturn(<<>>, NoExc, 0)
    /\ UNCHANGED <<store_dict, net, refresher>>
    /\ StoreUntouched

\* filter_website_attrs: self.website_attribute_codes is read for the items
FilterCodes ==
    /\ ReaderAt({"filter_website_attrs"}, "start")
    /\ reader.data # <<>>
    /\ reader' = [reader EXCEPT !.stack = ReaderCall("filter", "website_attribute_codes")]
    /\ UNCHANGED <<store_dict, net, refresher, storeCall>>
    /\ StoreUntouched

\* filter_website_attrs: the new dict
FilterReturn ==
    /\ ReaderAt({"filter_website_attrs"}, "filter")
    /\ ReaderReturn(SelectSeq(reader.data, LAMBDA item : IsWebsiteCode(item.key, reader.acc.val)),
                    NoExc, reader.acc.gen)
    /\ UNCHANGED <<store_dict, net, refresher>>
    /\ StoreUntouched

\* refresh() is called; by the only thread of an unshared client between its
\* other Store calls
RefreshBegin ==
    /\ refresher.pc = 0
    /\ refresher.shared \/ reader.stack = <<>>
    /\ net.refreshes < MaxRefreshes
    /\ refresher' = [refresher EXCEPT !.pc = 1]
    /\ net' = [net EXCEPT !.refreshes = @ + 1]
    /\ UNCHANGED <<store_dict, reader, storeCall>>
    /\ StoreUntouched

\* self.__dict__.pop(key, None)
RefreshPop ==
    /\ refresher.pc \in DOMAIN RefreshKeys
    /\ store_dict' = [store_dict EXCEPT ![RefreshKeys[refresher.pc]] = NoEntry]
    /\ refresher' = [refresher EXCEPT !.pc = @ + 1]
    /\ UNCHANGED <<net, reader, storeCall>>
    /\ StoreUntouched

\* return True
RefreshReturn ==
    /\ refresher.pc = Len(RefreshKeys) + 1
    /\ refresher' = [refresher EXCEPT !.pc = 0]
    /\ net' = [net EXCEPT !.fetches = [k \in FetchedProperties |-> 0]]
    /\ storeCall' = [NoStoreCall EXCEPT !.op = "refresh"]
    /\ UNCHANGED <<store_dict, reader>>
    /\ StoreUntouched

StoreCalls == CachedProperties \cup FetchedProperties \cup {"active", "filter_website_attrs"}

NextStore ==
    \/ \E name \in StoreCalls \ {"filter_website_attrs"} : StoreCall(name, <<>>)
    \/ \E data \in AttributeData : StoreCall("filter_website_attrs", data)
    \/ PropertyHit
    \/ PropertyMiss
    \/ \E list \in ConfigLists \cup AttributeLists \cup ListsFor("views") : PropertyFetch(list)
    \/ PropertyDerive
    \/ PropertyStore
    \/ ActiveConfigs
    \/ ActiveFound
    \/ ActiveNone
    \/ ActiveFallback
    \/ ActiveSmallestId
    \/ ActiveIndexError
    \/ FilterEmpty
    \/ FilterCodes
    \/ FilterReturn
    \/ RefreshBegin
    \/ RefreshPop
    \/ RefreshReturn

\* A constructed client, whose Store is used by one thread
InitStoreClient ==
    /\ InitClient
    /\ phase = "ready"
    /\ password = "pw" /\ api_key = None /\ authentication_method = PASSWORD
    /\ InitRouting
    /\ InitStore
    /\ local = FALSE
    /\ tx = NoTx
    /\ scope \in Scopes
    /\ domain = <<"d", ".", "c", "o">>
    /\ InitUrls
    /\ InitSerial
    /\ instances = NoInstances

SpecStore == InitStoreClient /\ [][NextStore]_vars

\* The same client shared by two threads: one reads the attribute accessors
\* while the other calls refresh().
AttributeAccessors ==
    {"all_product_attributes", "store_view_product_attributes",
     "website_product_attributes", "global_product_attributes",
     "website_attribute_codes"}

InitStoreThreads ==
    /\ InitClient
    /\ phase = "ready"
    /\ password = "pw" /\ api_key = None /\ authentication_method = PASSWORD
    /\ InitRouting
    /\ local = FALSE
    /\ tx = NoTx
    /\ scope = Empty
    /\ domain = <<"d", ".", "c", "o">>
    /\ InitUrls
    /\ InitSerial
    /\ instances = NoInstances
    /\ store_dict = [k \in CachedProperties \cup FetchedProperties |-> NoEntry]
    /\ net = [fetches |-> [k \in FetchedProperties |-> 0], refreshes |-> 0]
    /\ reader = [stack |-> <<>>, acc |-> NoEntry, data |-> <<>>]
    /\ refresher = [pc |-> 0, shared |-> TRUE]
    /\ storeCall = NoStoreCall

NextStoreThreads ==
    \/ \E name \in AttributeAccessors : StoreCall(name, <<>>)
    \/ PropertyHit
    \/ PropertyMiss
    \/ \E list \in AttributeLists : PropertyFetch(list)
    \/ PropertyDerive
    \/ PropertyStore
    \/ RefreshBegin
    \/ RefreshPop
    \/ RefreshReturn

SpecStoreThreads == InitStoreThreads /\ [][NextStoreThreads]_vars

-----------------------------------------------------------------------------
(* Client.url_for *)

\* the characters of a scope
ScopeChars(s) ==
    CASE s = "all" -> <<"a", "l", "l">>
      [] s = "default" -> <<"d", "e", "f", "a", "u", "l", "t">>
      [] s = "en" -> <<"e", "n">>
      [] OTHER -> <<>>

\* str.replace(old, new): every occurrence of old, left to right
RECURSIVE Replace(_, _, _)
Replace(s, old, new) ==
    IF Len(s) < Len(old) THEN s
    ELSE IF StartsWith(s, old)
         THEN new \o Replace(SubSeq(s, Len(old) + 1, Len(s)), old, new)
         ELSE <<Head(s)>> \o Replace(Tail(s), old, new)

\* self.BASE_URL.replace('/V1', f'/{scope}/V1') + endpoint
ScopedUrl(base, s, endpoint) ==
    Replace(base, <<"/", "V", "1">>, <<"/">> \o ScopeChars(s) \o <<"/", "V", "1">>)
        \o endpoint

\* the arguments of url_for(): scope=None is the default
UrlEndpoints == {Literals.orders, Literals.products_attributes}
UrlScopes == {None, Empty, "en", "all"}

\* everything but urlCall
UrlUntouched ==
    UNCHANGED <<creds, routing, transport, store, instances, serial, domain, BASE_URL,
                ACCESS_TOKEN, authentication_retries, phase, stack, ret, exc,
                outcome, op, lastLogin, failedRun, tokenRejected>>

UrlReturn(endpoint, s, url) ==
    /\ urlCall' = [endpoint |-> endpoint, scope |-> s, url |-> url, done |-> TRUE]
    /\ UrlUntouched

\* url_for(endpoint, scope) with a scope given
UrlForScope(endpoint, s) ==
    /\ Truthy(s)
    /\ UrlReturn(endpoint, s, ScopedUrl(BASE_URL, s, endpoint))

\* url_for(endpoint): no scope given, the client has one
UrlForClientScope(endpoint, s) ==
    /\ ~Truthy(s)
    /\ Truthy(scope) /\ s = None
    /\ UrlReturn(endpoint, s, ScopedUrl(BASE_URL, scope, endpoint))

\* url_for(endpoint) of a client without scope, or url_for(endpoint, '')
UrlForBase(endpoint, s) ==
    /\ ~Truthy(s)
    /\ ~(Truthy(scope) /\ s = None)
    /\ UrlReturn(endpoint, s, BASE_URL \o endpoint)

InitUrlClient ==
    /\ InitClient
    /\ phase = "ready"
    /\ password = "pw" /\ api_key = None /\ authentication_method = PASSWORD
    /\ InitRouting
    /\ InitStore
    /\ local \in BOOLEAN
    /\ tx = NoTx
    /\ scope \in Scopes \cup {None}
    /\ domain \in RawDomains
    /\ InitUrls
    /\ InitSerial
    /\ instances = NoInstances

NextUrl ==
    \/ \E endpoint \in UrlEndpoints, s \in UrlScopes : UrlForScope(endpoint, s)
    \/ \E endpoint \in UrlEndpoints, s \in UrlScopes : UrlForClientScope(endpoint, s)
    \/ \E endpoint \in UrlEndpoints, s \in UrlScopes : UrlForBase(endpoint, s)

SpecUrl == InitUrlClient /\ [][NextUrl]_vars

-----------------------------------------------------------------------------
(* Several clients in one process: each Client(...) builds its own objects.
   The operations are reduced to what they write and to which object. *)

Clients == {1, 2}

NoClient ==
    [constructed |-> FALSE, ACCESS_TOKEN |-> Unset, authentication_retries |-> 0,
     attribute |-> Unset, product |-> Unset, session |-> 0, store |-> 0]

\* Session() and Store(self) each build a new object; objects are numbered in
\* the order of their construction
NewSessionShared(sessions) == 1
NewSession(sessions) == Len(sessions) + 1
NewStore(stores) == Len(stores) + 1
Allocate(heap, id, object) == IF id > Len(heap) THEN Append(heap, object) ELSE heap

InstancesUntouched ==
    UNCHANGED <<creds, routing, transport, store, urls, serial,
                ACCESS_TOKEN, authentication_retries, phase, stack, ret, exc,
                outcome, op, lastLogin, failedRun, tokenRejected>>

Constructed(c) == instances.client[c].constructed

\* the client c written to, by c itself
WriteClient(c, client) ==
    /\ instances' = [instances EXCEPT !.client[c] = client, !.actor = c]
    /\ InstancesUntouched

\* Client(..., login=False)
Construct(c) ==
    /\ ~Constructed(c)
    /\ LET session == NewSession(instances.sessions)
           st == NewStore(instances.stores)
       IN  instances' =
             [client |-> [instances.client EXCEPT ![c] =
                            [NoClient EXCEPT !.constructed = TRUE,
                                             !.session = session, !.store = st]],
              sessions |-> Allocate(instances.sessions, session, [pooled |-> FALSE]),
              stores |-> Allocate(instances.stores, st, [client |-> c, memo |-> {}]),
              actor |-> c]
    /\ InstancesUntouched

\* c.authenticate(): the login goes through requests.post, not the session
InstanceAuthenticate(c, accepted) ==
    /\ Constructed(c)
    /\ instances.client[c].authentication_retries < MaxAuthRetries
    /\ WriteClient(c, IF accepted
                      THEN [instances.client[c] EXCEPT !.ACCESS_TOKEN = "t1",
                                                       !.authentication_retries = 0]
                      ELSE [instances.client[c] EXCEPT
                              !.authentication_retries = @ + 1])

\* c.request(...): self.session.request(...)
InstanceRequest(c) ==
    /\ Constructed(c)
    /\ instances' = [instances EXCEPT
                       !.sessions[instances.client[c].session].pooled = TRUE,
                       !.actor = c]
    /\ InstancesUntouched

\* c.product_attribute_options_attribute = attribute
InstanceSetAttribute(c, attribute) ==
    /\ Constructed(c)
    /\ WriteClient(c, [instances.client[c] EXCEPT !.attribute = attribute])

\* c.media_entries_product = product
InstanceSetProduct(c, product) ==
    /\ Constructed(c)
    /\ WriteClient(c, [instances.client[c] EXCEPT !.product = product])

\* c.store.<name>: the search goes through the session of the Store's client
\* and the value is memoized in the Store of c
InstanceAccess(c, name) ==
    /\ Constructed(c)
    /\ LET st == instances.client[c].store
           owner == instances.stores[st].client
       IN  instances' = [instances EXCEPT
                           !.stores[st].memo = @ \cup {name},
                           !.sessions[instances.client[owner].session].pooled = TRUE,
                           !.actor = c]
    /\ InstancesUntouched

\* c.store.refresh()
InstanceRefresh(c) ==
    /\ Constructed(c)
    /\ instances' = [instances EXCEPT
                       !.stores[instances.client[c].store].memo =
                            @ \ {RefreshKeys[i] : i \in DOMAIN RefreshKeys},
                       !.actor = c]
    /\ InstancesUntouched

InitTwoClients ==
    /\ InitClient
    /\ phase = "ready"
    /\ password = "pw" /\ api_key = None /\ authentication_method = PASSWORD
    /\ InitRouting
    /\ InitStore
    /\ local = FALSE
    /\ tx = NoTx
    /\ scope = Empty
    /\ domain = <<"d", ".", "c", "o">>
    /\ InitUrls
    /\ InitSerial
    /\ instances = [client |-> [c \in Clients |-> NoClient], sessions |-> <<>>,
                    stores |-> <<>>, actor |-> 0]

NextTwoClients ==
    \/ \E c \in Clients : Construct(c)
    \/ \E c \in Clients, accepted \in BOOLEAN : InstanceAuthenticate(c, accepted)
    \/ \E c \in Clients : InstanceRequest(c)
    \/ \E c \in Clients, attribute \in {"color"} : InstanceSetAttribute(c, attribute)
    \/ \E c \in Clients, product \in {"sku1"} : InstanceSetProduct(c, product)
    \/ \E c \in Clients, name \in {"configs", "websites"} : InstanceAccess(c, name)
    \/ \E c \in Clients : InstanceRefresh(c)

SpecTwoClients == InitTwoClients /\ [][NextTwoClients]_vars

-----------------------------------------------------------------------------
(* Client.to_dict and Client.from_dict *)

UserNames == {None, "user"}
GivenAgents == {None, "my-agent"}

\* how the authenticate() call of a constructor ends: with the token of an
\* accepted and validated login, or with one of its exceptions
LoginEnds == {"t1", "t2", AuthErrLogin, AuthErrTokenValidation, ErrExhausted}

SerialUntouched ==
    UNCHANGED <<creds, routing, transport, store, urls, instances,
                username, user_agent,
                ACCESS_TOKEN, authentication_retries, phase, stack, ret, exc,
                outcome, op, lastLogin, failedRun, tokenRejected>>

\* The mapping of to_dict(); log_level and log_file describe the logger only
Settings ==
    [domain |-> domain, username |-> username, password |-> password,
     scope |-> scope, user_agent |-> user_agent, token |-> ACCESS_TOKEN]

\* to_dict() of an authenticated client: the token property returns the
\* stored token
ToDict ==
    /\ ~TokenMissing
    /\ settings' = [NoSettings EXCEPT !.done = "to_dict", !.data = Settings]
    /\ SerialUntouched

\* Client(**d) up to its login: the keys of d that are parameters of __init__
\* are assigned, 'token' and 'log_file' go to **kwargs, of which only
\* 'log_file' and 'log_requests' are read, and every parameter that d has no
\* key for takes its default
ClientOf(d, agent) ==
    [domain |-> d.domain, username |-> d.username, password |-> d.password,
     api_key |-> None, authentication_method |-> PASSWORD, scope |-> d.scope,
     local |-> FALSE, BASE_URL |-> BaseUrl(FALSE, d.domain),
     user_agent |-> UserAgentOf(agent, d.user_agent),
     ACCESS_TOKEN |-> Unset, authentication_retries |-> 0]

\* from_dict(d): the constructor ends with authenticate() (login defaults to
\* True), under the password method and without api key
FromDict(agent, end) ==
    /\ settings.done = "to_dict"
    /\ LET c == ClientOf(settings.data, agent)
       IN  settings' =
             IF c.password = None /\ c.api_key = None
             THEN [settings EXCEPT !.done = "raised", !.raised = ErrCredentials]
             ELSE IF end \in Tokens
             THEN [settings EXCEPT !.done = "from_dict",
                                   !.copy = [c EXCEPT !.ACCESS_TOKEN = end]]
             ELSE [settings EXCEPT !.done = "raised", !.raised = end]
    /\ SerialUntouched

\* the token of an authenticated client: the api key itself, or the token
\* of the login
AuthenticatedSettings ==
    IF UsesApiKey
    THEN Truthy(api_key) /\ ACCESS_TOKEN = api_key
    ELSE password # None /\ ACCESS_TOKEN \in {"t1", "t2"}

\* An authenticated client of either method, as Client(domain, username,
\* password, api_key, scope, local, user_agent, ...) and a successful
\* authenticate() leave it
InitSettings ==
    /\ password \in Passwords
    /\ api_key \in ApiKeys
    /\ authentication_method \in {PASSWORD, TOKEN}
    /\ AuthenticatedSettings
    /\ authentication_retries = 0
    /\ ret = NoRet
    /\ exc = NoExc
    /\ outcome = NoOutcome
    /\ lastLogin = None
    /\ failedRun = 0
    /\ tokenRejected = FALSE
    /\ phase = "ready"
    /\ stack = <<>>
    /\ op = NewOp("none")
    /\ InitRouting
    /\ InitStore
    /\ tx = NoTx
    /\ instances = NoInstances
    /\ local \in BOOLEAN
    /\ scope \in {Empty, "en"}
    /\ domain \in RawDomains
    /\ BASE_URL = BaseUrl(local, domain)
    /\ urlCall = NoUrlCall
    /\ username \in UserNames
    /\ \E agent \in Agents, given \in GivenAgents :
          user_agent = UserAgentOf(agent, given)
    /\ settings = NoSettings

NextSettings ==
    \/ ToDict
    \/ \E agent \in Agents, end \in LoginEnds : FromDict(agent, end)

SpecSettings == InitSettings /\ [][NextSettings]_vars

----------------------------------------------------------------------------
(* Properties *)

Done == Depth = 0
Raised(e) == outcome.kind = "raised" /\ outcome.err = e
RaisedAuthenticationError == outcome.kind = "raised" /\ IsAuthenticationError(outcome.err)
RaisedValueError == outcome.kind = "raised" /\ IsValueError(outcome.err)
ReturnedFrom(fn) == outcome.kind = "returned" /\ outcome.fn = fn

\* C1: a request() that received 401 on its original send and on its replay
\* ends by raising AuthenticationError.
C1_Double401RaisesAuthenticationError ==
    (Done /\ op.kind = "request" /\ op.first401 /\ Unauthorized(op.replayStatus))
        => RaisedAuthenticationError

\* C2: a request is replayed at most once, and a 401 received by the replay
\* starts no further authenticate() and no further replay.
C2_AtMostOneReplay ==
    \A i \in 1..Depth :
        stack[i].fn = "request" =>
            /\ stack[i].gen <= 1
            /\ stack[i].gen = 1 => stack[i].pc \notin {"reauth", "replaying"}

\* C3: when the original send received 401, the re-authentication returned
\* and the replay received a status other than 401, then one re-authentication
\* was started, the request was sent twice in all, and request() returned the
\* replay's response.
C3_SingleReauthSingleReplay ==
    (/\ Done /\ op.kind = "request"
     /\ op.first401 /\ op.reauthOk
     /\ op.replayStatus # 0 /\ ~Unauthorized(op.replayStatus))
        => /\ op.reauthCalls = 1
           /\ op.rootSends = 2
           /\ ReturnedFrom("request") /\ outcome.val = op.replayStatus

\* C4: once authenticate() has failed on the validation of an accepted login,
\* the token of that login is not left stored as a usable access token.
C4_RejectedTokenNotStored ==
    (Done /\ tokenRejected) => ~Truthy(ACCESS_TOKEN)

\* C5: an authenticate() call whose validation call was answered with a status
\* other than 200 raises AuthenticationError.
C5_BadValidationRaisesAuthenticationError ==
    (Done /\ op.kind = "authenticate" /\ op.valBad) => RaisedAuthenticationError

\* C6: after three failed authenticate() calls, none of them begun before the
\* last successful one returned, the retry counter is exhausted and the next
\* authenticate() call raises the exhausted-retries ValueError in its first
\* step, with no network call and no change of the client.
C6_FourthAttemptFailsFast ==
    /\ [](failedRun = MaxAuthRetries => authentication_retries = MaxAuthRetries)
    /\ [][ (failedRun = MaxAuthRetries /\ At("authenticate", "start"))
            => /\ IF Depth = 1 THEN Raised(ErrExhausted)' ELSE exc' = ErrExhausted
               /\ stack' = Pop
               /\ op' = op
               /\ ACCESS_TOKEN' = ACCESS_TOKEN
               /\ authentication_retries' = authentication_retries ]_vars

C6_Witness ==
    /\ Done /\ op.kind = "authenticate" /\ phase = "ready"
    /\ failedRun = MaxAuthRetries
    /\ Raised(ErrExhausted)
    /\ op.netCalls = 0

\* C7: the retry counter stays within 0..3; every authenticate() call that is
\* not rejected as exhausted increments it by one in its first step; and it
\* changes in no other way than that increment and the reset to 0 made when
\* authenticate() returns after validate() returned.
C7_RetryCounterDiscipline ==
    /\ [](authentication_retries \in 0..MaxAuthRetries)
    /\ [][ /\ (At("authenticate", "start") /\ authentication_retries < MaxAuthRetries)
                => authentication_retries' = authentication_retries + 1
           /\ authentication_retries' # authentication_retries
                => \/ /\ At("authenticate", "start")
                      /\ authentication_retries' = authentication_retries + 1
                   \/ /\ At("authenticate", "validating") /\ ret.fn = "validate"
                      /\ authentication_retries' = 0
                      /\ \/ ret'.fn = "authenticate"
                         \/ Done' /\ ReturnedFrom("authenticate")' ]_vars

C7_Witness ==
    /\ Done /\ ReturnedFrom("authenticate")
    /\ op.valBad
    /\ authentication_retries = 0

\* C8: with password and api_key both None, authenticate() makes no network
\* call and ends with a ValueError, under either authentication method.
C8_NoCredentialsNoNetwork ==
    (password = None /\ api_key = None /\ op.kind = "authenticate")
        => /\ op.netCalls = 0
           /\ Done => RaisedValueError

C8_Witness ==
    /\ password = None /\ api_key = None
    /\ authentication_method = PASSWORD
    /\ Done /\ op.kind = "authenticate"
    /\ Raised(ErrCredentials)

\* C9: whenever authenticate() has just returned, the retry counter is 0 and
\* the stored token is the api_key, with no login request sent, under the
\* API-key method, and the token of the most recent accepted login otherwise.
AuthenticateJustReturned ==
    \/ ret.fn = "authenticate"
    \/ Done /\ ReturnedFrom("authenticate")

C9_SuccessStoresToken ==
    /\ authentication_method = TOKEN => op.logins = 0
    /\ AuthenticateJustReturned
        => /\ authentication_retries = 0
           /\ authentication_method = TOKEN => ACCESS_TOKEN = api_key
           /\ authentication_method # TOKEN => ACCESS_TOKEN = lastLogin

C9_Witness ==
    /\ Done /\ ReturnedFrom("authenticate")
    /\ authentication_method = PASSWORD
    /\ op.valBad
    /\ ACCESS_TOKEN = "t2" /\ lastLogin = "t2"

\* C10: a request made while no token has ever been stored obtains one through
\* authenticate(); no call ends with the AttributeError of the missing
\* ACCESS_TOKEN attribute.
C10_FirstRequestAuthenticates ==
    ~Raised(ErrAttribute)

\* C11: a request() call whose method, in upper case, is none of GET, POST,
\* PUT, DELETE, or is POST or PUT with a None or empty payload, raises
\* ValueError in its first step: nothing is sent, and the token and the retry
\* counter are unchanged.
C11_InvalidCallRaisesBeforeIO ==
    [][ (/\ At("request", "start")
         /\ \/ Upper(Top.method) \notin {"GET", "POST", "PUT", "DELETE"}
            \/ Upper(Top.method) \in {"POST", "PUT"} /\ Top.payload \in {None, "{}"})
          => /\ stack' = Pop
             /\ IF Depth = 1 THEN RaisedValueError' ELSE IsValueError(exc')
             /\ op' = op
             /\ ACCESS_TOKEN' = ACCESS_TOKEN
             /\ authentication_retries' = authentication_retries ]_vars

C11_Witness ==
    /\ Done /\ op.kind = "request"
    /\ Raised(ErrMethod)
    /\ Truthy(ACCESS_TOKEN)
    /\ op.netCalls = 0

\* C12: when the re-authentication started by the 401 of the original send
\* fails because its login is rejected or its validation call is answered with
\* a status other than 200, request() raises AuthenticationError and the
\* request is not sent again.
C12_FailedReauthRaisesAuthenticationError ==
    (/\ Done /\ op.kind = "request"
     /\ op.first401 /\ ~op.reauthOk
     /\ outcome.kind = "raised"
     /\ outcome.err = AuthErrLogin \/ op.reauthValBad)
        => /\ RaisedAuthenticationError
           /\ op.rootSends = 1

\* C13: a request() that has received a status other than 200 and 401 returns
\* that status in its next step, with one more error-severity log entry and
\* without a re-authentication, a further network call or a change of the
\* token or the retry counter.
C13_OtherStatusReturnedAndLogged ==
    [][ (At("request", "responded") /\ Top.status \notin {200, 401})
          => /\ stack' = Pop
             /\ IF Depth = 1
                THEN ReturnedFrom("request")' /\ outcome'.val = Top.status
                ELSE ret' = [fn |-> "request", val |-> Top.status] /\ exc' = NoExc
             /\ op' = [op EXCEPT !.errorLogs = Inc(@)]
             /\ ACCESS_TOKEN' = ACCESS_TOKEN
             /\ authentication_retries' = authentication_retries ]_vars

C13_Witness ==
    /\ Done /\ op.kind = "request"
    /\ ReturnedFrom("request") /\ outcome.val = 500
    /\ op.errorLogs = 1 /\ op.reauthCalls = 0 /\ op.rootSends = 1

\* C15: a constructed client has password or api_key set.
C15_ClientHasCredential ==
    phase = "ready" => ~(password = None /\ api_key = None)


-----------------------------------------------------------------------------
(* Endpoint routing (SpecRouter) *)

\* the endpoints of each shape, by the text of the endpoint
AttributeOptionsEndpoints ==
    {e \in Endpoints : /\ Contains(Lower(e), Literals.products_attributes)
                       /\ Contains(Lower(e), Literals.slash_options)}
MediaEndpoints ==
    {e \in Endpoints : /\ Contains(Lower(e), Literals.products_slash)
                       /\ Contains(Lower(e), Literals.slash_media)
                       /\ e \notin AttributeOptionsEndpoints}
UnmatchedEndpoints ==
    {e \in Endpoints : /\ Lower(e) \notin ExactNames
                       /\ e \notin AttributeOptionsEndpoints
                       /\ e \notin MediaEndpoints}
\* products/<x>/options
ProductsXOptions ==
    {e \in Endpoints :
        /\ Len(e) > Len(Literals.products_slash) + Len(Literals.slash_options)
        /\ SubSeq(Lower(e), 1, Len(Literals.products_slash)) = Literals.products_slash
        /\ SubSeq(Lower(e), Len(e) - Len(Literals.slash_options) + 1, Len(e)) = Literals.slash_options}
MixedCase == {e \in Endpoints : Lower(e) # e}
CaseVariants == [e \in Endpoints |-> {v \in Endpoints : Lower(v) = Lower(e)}]

AttributeIsSet == product_attribute_options_attribute \in Attributes
ProductIsSet == media_entries_product \in MediaProducts

\* C16 (as claimed): with the attribute set, manager('products/<x>/options')
\* returns the attribute-options handler for every segment <x>.
C16_ProductsAnyOptionsIsAttributeOptions ==
    (call.kind = "manager" /\ call.endpoint \in ProductsXOptions /\ AttributeIsSet)
        => call.family = "product_attribute_options" /\ call.raised = NoExc

\* C16 (amended): with the attribute set, every endpoint whose lower-case form
\* contains 'products/attributes' and '/options' resolves to the
\* attribute-options handler, built with that attribute; never to the generic
\* Manager or the products handler.
C16_AttributesOptionsIsAttributeOptions ==
    (call.kind = "manager" /\ call.endpoint \in AttributeOptionsEndpoints /\ AttributeIsSet)
        => /\ call.family = "product_attribute_options"
           /\ call.raised = NoExc
           /\ call.constructed
           /\ call.mgrArg = product_attribute_options_attribute

C16_Witness ==
    /\ call.kind = "manager"
    /\ call.endpoint \in AttributeOptionsEndpoints \cap MixedCase
    /\ call.family = "product_attribute_options"
    /\ call.mgrArg = "color"

\* C17: resolving an attribute-options endpoint with the attribute unset or
\* None, or a media endpoint with the product unset or None, raises the
\* AttributeError naming the prerequisite; no handler is constructed or stored
\* and nothing is sent.
C17_MissingPrerequisiteRaises ==
    call.kind = "manager" =>
        /\ (call.endpoint \in AttributeOptionsEndpoints /\ ~AttributeIsSet)
              => /\ call.raised = ErrAttributeNotSet
                 /\ ~call.constructed
                 /\ product_attribute_options = Unset
                 /\ op.netCalls = 0
        /\ (call.endpoint \in MediaEndpoints /\ ~ProductIsSet)
              => /\ call.raised = ErrProductNotSet
                 /\ ~call.constructed
                 /\ media_entry_manager = Unset
                 /\ op.netCalls = 0

C17_Witness ==
    /\ call.kind = "manager"
    /\ call.raised = ErrProductNotSet
    /\ media_entries_product = None
    /\ discarded.media = "sku1"

\* C18: a setter leaves no stored handler behind; a stored handler is always
\* one built with the current prerequisite value, and a resolution returns a
\* handler built in that call with the current value, never an earlier one.
C18_SetterDiscardsHandler ==
    /\ call.kind = "set_attribute" => product_attribute_options = Unset
    /\ call.kind = "set_product" => media_entry_manager = Unset
    /\ product_attribute_options # Unset
          => product_attribute_options = product_attribute_options_attribute
    /\ media_entry_manager # Unset => media_entry_manager = media_entries_product
    /\ (call.kind = "manager" /\ call.raised = NoExc
          /\ call.family = "product_attribute_options")
          => call.constructed /\ call.mgrArg = product_attribute_options_attribute
    /\ (call.kind = "manager" /\ call.raised = NoExc
          /\ call.family = "product_media_entries")
          => call.constructed /\ call.mgrArg = media_entries_product

C18_Witness ==
    /\ call.kind = "manager"
    /\ call.family = "product_attribute_options"
    /\ call.mgrArg = "size"
    /\ discarded.options = "color"

\* C19: an endpoint that equals none of the exact names and matches neither
\* substring pattern resolves to a generic Manager constructed with the
\* endpoint string exactly as given.
C19_UnmatchedIsGenericManager ==
    (call.kind = "manager" /\ call.endpoint \in UnmatchedEndpoints)
        => /\ call.family = "Manager"
           /\ call.raised = NoExc
           /\ call.constructed
           /\ call.mgrEndpoint = call.endpoint

C19_Witness ==
    /\ call.kind = "manager"
    /\ call.endpoint \in UnmatchedEndpoints \cap MixedCase
    /\ call.family = "Manager"
    /\ call.mgrEndpoint = call.endpoint

\* C20: the family manager() resolved an endpoint to is the family of every
\* letter-case variant of that endpoint.
C20_CaseInsensitiveRouting ==
    call.kind = "manager"
        => \A v \in CaseVariants[call.endpoint] : Routes[v] = call.family

C20_Witness ==
    /\ call.kind = "manager"
    /\ call.endpoint \in MediaEndpoints \cap MixedCase
    /\ call.family = "product_media_entries"
    /\ call.raised = NoExc


-----------------------------------------------------------------------------
(* Transport retry (SpecTransport) *)

\* C14: for every client, a 502/503/504 answer to POST or PUT is never handed
\* back as the response (it is retried, at most 3 times, and then the transport
\* failure is raised); GET and DELETE are sent once.
C14_TransportRetriesEveryClient ==
    /\ (tx.state = "returned" /\ tx.method \in {"POST", "PUT"})
          => tx.responses[Len(tx.responses)] \notin {502, 503, 504}
    /\ tx.method \in {"GET", "DELETE"} => Len(tx.responses) <= 1
    /\ Len(tx.responses) <= 4
    /\ tx.state = "raised"
          => /\ Len(tx.responses) = 4
             /\ \A i \in 1..4 : tx.responses[i] \in {502, 503, 504}


-----------------------------------------------------------------------------
(* The Store (SpecStore, SpecStoreThreads) *)

MemoConfigs == store_dict["configs"].val
MemoAttributes == store_dict["all_product_attributes"].val
DefaultConfigs == {i \in DOMAIN MemoConfigs : MemoConfigs[i].code = "default"}
Elements(list) == {list[i] : i \in DOMAIN list}
ActiveReturned == storeCall.op = "active" /\ refresher.pc = 0

C22_ActiveNeverRaises ==
    (ActiveReturned /\ \A i \in DOMAIN MemoConfigs :
                          MemoConfigs[i].code # (IF scope \in {"", "all"} THEN "default" ELSE scope))
        => storeCall.raised = NoExc /\ storeCall.result = <<>>

\* C23: once refresh() has returned, none of the eight cached properties holds
\* a memoized value.
C23_RefreshDiscardsEverything ==
    (storeCall.op = "refresh" /\ refresher.pc = 0)
        => \A name \in {"configs", "views", "websites", "all_product_attributes",
                        "store_view_product_attributes", "website_product_attributes",
                        "global_product_attributes", "website_attribute_codes"} :
              ~store_dict[name].has

\* C24: since the last refresh() (or the construction) the attribute list has
\* been fetched at most once.
C24_AttributesFetchedOnce == net.fetches["all_product_attributes"] <= 1

C24_Witness ==
    /\ refresher.pc = 0
    /\ storeCall.op = "filter_website_attrs"
    /\ storeCall.result # <<>>
    /\ net.refreshes = 1
    /\ net.fetches["all_product_attributes"] = 1
    /\ store_dict["store_view_product_attributes"].has
    /\ store_dict["global_product_attributes"].has

Underlying(name) ==
    IF name \in {"configs", "views", "websites"} THEN name ELSE "all_product_attributes"

\* C25: after a refresh(), whenever an access to a cached property has
\* returned, the data under it has been fetched exactly once since that
\* refresh.
C25_OneFetchAfterRefresh ==
    (net.refreshes >= 1 /\ refresher.pc = 0
       /\ storeCall.op \in {"configs", "views", "websites", "all_product_attributes",
                            "store_view_product_attributes", "website_product_attributes",
                            "global_product_attributes", "website_attribute_codes"})
        => net.fetches[Underlying(storeCall.op)] = 1

Partitions ==
    {"global_product_attributes", "website_product_attributes",
     "store_view_product_attributes"}

\* C26: whenever no call of refresh() is in progress, the memoized partitions
\* are pairwise disjoint, and once all three are memoized their union is the
\* memoized all_product_attributes list.
C26_PartitionsDisjointAndComplete ==
    refresher.pc = 0 =>
    /\ \A p, q \in Partitions :
          (p # q /\ store_dict[p].has /\ store_dict[q].has)
             => Elements(store_dict[p].val) \cap Elements(store_dict[q].val) = {}
    /\ (\A p \in Partitions : store_dict[p].has)
          => /\ store_dict["all_product_attributes"].has
             /\ UNION {Elements(store_dict[p].val) : p \in Partitions} = Elements(MemoAttributes)
             /\ Len(store_dict["global_product_attributes"].val)
                  + Len(store_dict["website_product_attributes"].val)
                  + Len(store_dict["store_view_product_attributes"].val) = Len(MemoAttributes)

C26_Witness ==
    /\ refresher.pc = 0
    /\ \A p \in Partitions : store_dict[p].has /\ store_dict[p].val # <<>>
    /\ Len(store_dict["website_product_attributes"].val) = 2

\* C27: filter_website_attrs(data) returns the items of data, in their order
\* and with their values, whose key is the attribute_code of a website-scoped
\* attribute of the memoized list; data is left as it was.
C27_FilterKeepsWebsiteItems ==
    (storeCall.op = "filter_website_attrs" /\ refresher.pc = 0)
        => /\ storeCall.raised = NoExc
           /\ storeCall.result =
                SelectSeq(reader.data,
                          LAMBDA item : \E i \in DOMAIN MemoAttributes :
                                            /\ MemoAttributes[i].attribute_code = item.key
                                            /\ MemoAttributes[i].scope = "website")
           /\ reader.data \in AttributeData

C27_Witness ==
    /\ storeCall.op = "filter_website_attrs"
    /\ refresher.pc = 0
    /\ reader.data = <<Item("price", "12"), Item("meta_title", "x")>>
    /\ storeCall.result = <<Item("price", "12")>>
    /\ \E i \in DOMAIN MemoAttributes :
          MemoAttributes[i] = Attr("meta_title", "store")

\* C28: with refresh() run by a second thread, the memoized attribute entries
\* are never a mixture computed from lists fetched before and after a
\* refresh(), and once refresh() has returned every memoized attribute entry
\* comes from a list fetched after that refresh() began.
C28_NoHalfRefreshedPartitions ==
    /\ \A p, q \in AttributeAccessors :
          (store_dict[p].has /\ store_dict[q].has) => store_dict[p].gen = store_dict[q].gen
    /\ refresher.pc = 0
          => \A p \in AttributeAccessors :
                store_dict[p].has => store_dict[p].gen = net.refreshes

-----------------------------------------------------------------------------
(* url_for (SpecUrl) *)

Https == <<"h", "t", "t", "p", "s">>
Http == <<"h", "t", "t", "p">>
RestV1 == <<"/", "r", "e", "s", "t", "/", "V", "1", "/">>
EffectiveScope == IF urlCall.scope = None THEN scope ELSE urlCall.scope

\* C30: url_for(endpoint, scope) returns <scheme>://<domain>/rest/V1/<endpoint>
\* when the effective scope (the argument, or the client's scope when the
\* argument is None) is empty, and <scheme>://<domain>/rest/<scope>/V1/<endpoint>
\* otherwise; domain is the parsed domain of the client.
C30_UrlShape ==
    urlCall.done =>
        urlCall.url =
            (IF local THEN Http ELSE Https) \o <<":", "/", "/">> \o ParseDomain(domain)
              \o (IF EffectiveScope \in {None, Empty}
                  THEN RestV1
                  ELSE <<"/", "r", "e", "s", "t", "/">> \o ScopeChars(EffectiveScope)
                         \o <<"/", "V", "1", "/">>)
              \o urlCall.endpoint

-----------------------------------------------------------------------------
(* Independent clients (SpecTwoClients) *)

\* what a client can see of itself: its attributes, its session, its Store
View(all, c) ==
    [client |-> all.client[c],
     session |-> all.sessions[all.client[c].session],
     memo |-> all.stores[all.client[c].store].memo]

\* C29: an operation of one client (construction, authenticate, request,
\* prerequisite assignment, cache access, refresh) leaves the token, the retry
\* counter, the session, the prerequisites and the Store entries of every
\* other constructed client as they were.
C29_ClientsIndependent ==
    [][\A c \in Clients :
          (Constructed(c) /\ instances'.actor # c)
             => View(instances', c) = View(instances, c)]_vars

C29_Witness ==
    /\ instances.actor = 1
    /\ Constructed(1) /\ Constructed(2)
    /\ instances.client[1].ACCESS_TOKEN = "t1"
    /\ instances.client[1].attribute = "color"
    /\ View(instances, 1).session.pooled
    /\ View(instances, 1).memo = {"websites"}
    /\ instances.client[2].ACCESS_TOKEN = Unset
    /\ instances.client[2].authentication_retries = 2
    /\ instances.client[2].attribute = Unset
    /\ ~View(instances, 2).session.pooled
    /\ View(instances, 2).memo = {}

-----------------------------------------------------------------------------
(* Endpoint routing, continued (SpecRouter) *)

\* the endpoints that match both substring patterns, by their text
BothPatterns ==
    {e \in Endpoints : /\ Contains(Lower(e), Literals.products_attributes)
                       /\ Contains(Lower(e), Literals.slash_options)
                       /\ Contains(Lower(e), Literals.products_slash)
                       /\ Contains(Lower(e), Literals.slash_media)}
MediaGalleryOptions ==
    Literals.products_attributes \o <<"/", "m", "e", "d", "i", "a", "_", "g", "a", "l", "l", "e", "r", "y">>
        \o Literals.slash_options

\* C32: an endpoint matching both substring patterns resolves to the
\* attribute-options handler (or its AttributeError), never to the media
\* handler; 'products' and 'products/attributes' resolve to their own handlers.
C32_BothPatternsIsAttributeOptions ==
    call.kind = "manager" =>
        /\ call.endpoint \in BothPatterns
              => /\ call.family = "product_attribute_options"
                 /\ call.raised \in {NoExc, ErrAttributeNotSet}
                 /\ call.raised = NoExc
                       => call.constructed /\ call.mgrArg = product_attribute_options_attribute
        /\ Lower(call.endpoint) = Literals.products => call.family = "products"
        /\ Lower(call.endpoint) = Literals.products_attributes
              => call.family = "product_attributes"

C32_Witness ==
    /\ call.kind = "manager"
    /\ call.endpoint = MediaGalleryOptions
    /\ call.endpoint \in BothPatterns
    /\ call.family = "product_attribute_options"
    /\ call.mgrArg = "size"
    /\ media_entries_product = "sku1"

\* C38: a stored handler exists only while its family's prerequisite is set
\* and not None, a resolution succeeds only then, and assigning the
\* prerequisite of one family changes neither the prerequisite nor the stored
\* handler of the other.
C38_FamiliesKeptApart ==
    /\ [](/\ product_attribute_options # Unset => AttributeIsSet
          /\ media_entry_manager # Unset => ProductIsSet
          /\ (call.kind = "manager" /\ call.raised = NoExc
                 /\ call.family = "product_attribute_options") => AttributeIsSet
          /\ (call.kind = "manager" /\ call.raised = NoExc
                 /\ call.family = "product_media_entries") => ProductIsSet)
    /\ [][/\ call'.kind = "set_attribute"
               => UNCHANGED <<media_entries_product, media_entry_manager>>
          /\ call'.kind = "set_product"
               => UNCHANGED <<product_attribute_options_attribute,
                              product_attribute_options>>]_vars

C38_Witness ==
    /\ call.kind = "set_product"
    /\ call.mgrArg = None
    /\ media_entries_product = None
    /\ media_entry_manager = Unset
    /\ discarded.media = "sku1"
    /\ product_attribute_options = "color"
    /\ product_attribute_options_attribute = "color"

-----------------------------------------------------------------------------
(* The Store, continued (SpecStore) *)

CodeMatches == {i \in DOMAIN MemoConfigs : MemoConfigs[i].code = scope}
DerivedProperties ==
    {"store_view_product_attributes", "website_product_attributes",
     "global_product_attributes", "website_attribute_codes"}

\* C33: with the scope '' or 'all', no config of code 'default' and a
\* non-empty list, active returns the config with the smallest id; with a
\* custom scope it returns the first config with that code, or None when
\* there is none, whatever the ids.
C33_FallbackOnlyForDefault ==
    ActiveReturned =>
        /\ (scope \in {"", "all"} /\ DefaultConfigs = {} /\ MemoConfigs # <<>>)
              => /\ storeCall.raised = NoExc
                 /\ Len(storeCall.result) = 1
                 /\ storeCall.result[1] \in Elements(MemoConfigs)
                 /\ \A i \in DOMAIN MemoConfigs : storeCall.result[1].id <= MemoConfigs[i].id
        /\ scope \notin {"", "all", "default"}
              => /\ storeCall.raised = NoExc
                 /\ IF CodeMatches = {}
                    THEN storeCall.result = <<>>
                    ELSE \E i \in CodeMatches :
                            /\ storeCall.result = <<MemoConfigs[i]>>
                            /\ \A j \in CodeMatches : i <= j

C33_Witness ==
    /\ ActiveReturned
    /\ scope = "en"
    /\ MemoConfigs = <<Config("en", 3), Config("fr", 1), Config("en", 2)>>
    /\ storeCall.result = <<Config("en", 3)>>

\* C37: with one thread and no refresh() in progress, every memoized
\* partition and the memoized website_attribute_codes were computed from the
\* list memoized as all_product_attributes, which is then memoized too.
C37_PartitionsFromMemoizedList ==
    refresher.pc = 0 =>
        \A p \in DerivedProperties :
            store_dict[p].has
               => /\ store_dict["all_product_attributes"].has
                  /\ store_dict[p].gen = store_dict["all_product_attributes"].gen
                  /\ store_dict[Dependency(p)].has
                  /\ store_dict[p].val = Derive(p, store_dict[Dependency(p)].val)
                  /\ store_dict[Dependency(p)].val =
                        IF p = "website_attribute_codes"
                        THEN Derive(Dependency(p), MemoAttributes)
                        ELSE MemoAttributes

C37_Witness ==
    /\ refresher.pc = 0
    /\ net.refreshes = 1
    /\ store_dict["website_attribute_codes"].has
    /\ store_dict["website_attribute_codes"].val = <<"meta_title">>
    /\ store_dict["website_attribute_codes"].gen = 1
    /\ ~store_dict["global_product_attributes"].has

-----------------------------------------------------------------------------
(* Exhaustion of the authentication attempts (Spec) *)

\* a request() whose sends, validation calls included, were all answered 401
\* and whose logins were all accepted, started with the counter at 0
AllUnauthorized ==
    /\ op.kind = "request"
    /\ op.startRetries = 0
    /\ op.rootSends > 0
    /\ op.only401
    /\ ~op.rejected

\* C34: such a request() never returns a response and never recurses beyond
\* the calls of three attempts; it ends, and it ends by raising the
\* exhausted-retries ValueError with the counter at 3, after three logins
\* under the password method.
C34_AllUnauthorizedEndsExhausted ==
    /\ [](AllUnauthorized =>
            /\ exc # ErrRecursion
            /\ ret.fn # "request"
            /\ authentication_retries <= MaxAuthRetries
            /\ ~UsesApiKey => op.logins = authentication_retries
            /\ Done => /\ Raised(ErrExhausted)
                       /\ authentication_retries = MaxAuthRetries)
    /\ (op.kind = "request" /\ ~Done) ~> Done

C34_Witness ==
    /\ AllUnauthorized
    /\ Done
    /\ Raised(ErrExhausted)
    /\ authentication_method = PASSWORD
    /\ op.logins = 3
    /\ op.reauthCalls = 3
    /\ authentication_retries = 3

\* C35 (as claimed): once the retry counter equals 3 it stays 3.
C35_CounterThreeIsAbsorbing ==
    [][authentication_retries = MaxAuthRetries
          => authentication_retries' = MaxAuthRetries]_vars

\* An authenticate() call that has passed the check of its first step and has
\* not yet ended.
AttemptInProgress ==
    \E i \in 1..Depth : stack[i].fn = "authenticate" /\ stack[i].pc # "start"

\* C35 (amended): once the retry counter equals 3 with no authenticate() call
\* past its first step, however it got there, the counter stays 3, no
\* authenticate() call passes its first step again, and every later
\* authenticate() raises the exhausted-retries ValueError in its first step
\* without a network call.
C35_ExhaustedAtRestIsAbsorbing ==
    [][(authentication_retries = MaxAuthRetries /\ ~AttemptInProgress)
          => /\ authentication_retries' = MaxAuthRetries
             /\ ~AttemptInProgress'
             /\ At("authenticate", "start")
                   => /\ exc' = ErrExhausted \/ Raised(ErrExhausted)'
                      /\ op'.netCalls = op.netCalls]_vars

C35_Witness ==
    /\ password = None /\ api_key = None
    /\ failedRun = MaxAuthRetries
    /\ authentication_retries = MaxAuthRetries
    /\ Done /\ op.kind = "authenticate"
    /\ op.startRetries = MaxAuthRetries
    /\ Raised(ErrExhausted)
    /\ op.netCalls = 0

\* C36: under the API-key method with api_key None or '' and a password set,
\* authenticate() sends nothing, never raises the missing-credentials error
\* and ends with the exhausted-retries ValueError, the counter at 3 and the
\* empty api_key stored as token.
C36_EmptyApiKeyEndsExhausted ==
    (UsesApiKey /\ ~Truthy(api_key) /\ password # None /\ op.kind = "authenticate")
        => /\ op.netCalls = 0
           /\ exc # ErrCredentials
           /\ Done => /\ Raised(ErrExhausted)
                      /\ authentication_retries = MaxAuthRetries
                      /\ ACCESS_TOKEN = api_key

C36_Witness ==
    /\ UsesApiKey /\ api_key = Empty /\ password = "pw"
    /\ phase = "ready"
    /\ Done /\ op.kind = "authenticate"
    /\ op.startRetries = 0
    /\ Raised(ErrExhausted)
    /\ ACCESS_TOKEN = Empty
    /\ authentication_retries = MaxAuthRetries


-----------------------------------------------------------------------------
(* The settings round trip (SpecSettings) *)

FromDictReturned == settings.done = "from_dict"

\* C31: the client that from_dict(to_dict(c)) returns has the domain, the
\* credentials, the scope, the user agent, the authentication method and the
\* api key of c, whichever method c uses.
C31_RoundTripEquivalent ==
    FromDictReturned =>
        /\ settings.copy.domain = domain
        /\ settings.copy.username = username
        /\ settings.copy.password = password
        /\ settings.copy.scope = scope
        /\ settings.copy.user_agent = user_agent
        /\ settings.copy.authentication_method = authentication_method
        /\ settings.copy.api_key = api_key

====
